---- MODULE Spec2Model ----
(***************************************************************************)
(* A model of the aiui_tester core: the retrying invoker of the language   *)
(* model (tools/llm_manage.py), the type normalizer, the IR builder, the   *)
(* direct-call mapper and the session object (core/midscene_insight.py),   *)
(* and the per-task script compiler (core/generator_step.py).              *)
(*                                                                         *)
(* Python values are modelled as follows.  A str is a TLA+ string.  None   *)
(* is the sentinel string None, which no modelled str equals.  A value     *)
(* decoded from JSON (the raw "type" and "action_type" of a task record)   *)
(* is a record [j |-> kind, s |-> text] so that strings, null, numbers,    *)
(* arrays and a missing key stay apart.  Chinese literals of the source    *)
(* are transliterated to ASCII, the original is given in a comment.        *)
(***************************************************************************)
EXTENDS Integers, Sequences, FiniteSets, TLC

\* ---------------------------------------------------------------- bounds
\* largest retry budget (AIUIConfig.RETRY_TIMES) explored
MaxRetryTimes == 3
\* longest decoded array and longest calls list handed to the session
MaxRecords == 2
\* the session is explored while each task counter stays within this
MaxTaskCounter == 4
\* the session is explored until it has returned this many sequences
MaxSequences == 2
\* longest cases list handed to generate_multiple_cases
MaxCases == 2
\* latest clock reading a generator starts at
MaxClock == 2
\* longest previous_actions list the caller's TaskContext grows to
MaxPreviousActions == 2

\* ------------------------------------------------------- python helpers
None == "<None>"

VARIABLES
    \* ---- LLMManager.chat_with_retry (tools/llm_manage.py)
    retry_times,        \* AIUIConfig.RETRY_TIMES, read at line 78
    validation_func,    \* the validation_func argument (see ValidationFuncs)
    pc,                 \* "idle" | "running" | "returned" | "raised"
    attempt,            \* the loop variable of line 79
    calls,              \* the Gateway calls of this invocation, in call order
    sleeps,             \* number of time.sleep(RETRY_DELAY) of this invocation
    result,             \* the value returned (None until then)
    \* ---- one raw task record through the IR builder and the compiler
    task_data,          \* the raw record handed to create_task_from_dict
    stage,              \* "raw" | "built" | "build_raised" | "compiled" | "compile_raised"
    task,               \* the Task built from task_data (NoTask until then)
    code,               \* the text task_to_code returned ("" until then)
    \* ---- TaskGenerator (core/midscene_insight.py)
    tg_task_counter,    \* TaskGenerator.task_counter
    tg_assigned,        \* every identifier generate_task_id returned, in order
    \* ---- SingleInstructionMapper and MidsceneInsight (core/midscene_insight.py)
    sm_task_counter,    \* SingleInstructionMapper.task_counter
    sm_assigned,        \* every identifier the mapper's generate_task_id returned
    sequence_counter,   \* MidsceneInsight.sequence_counter
    outcome,            \* the last call on the session: its input and what it gave
    \* ---- MidsceneInsight.validate_task_sequence (core/midscene_insight.py)
    validation,         \* the last validation: the tasks validated and the result
    \* ---- TestCaseGenerator (core/generator_case.py)
    clock,              \* int(time.time()) as the generator reads it
    files,              \* the names of the files written to output_dir, in order
    report,             \* the last call on the generator: its input and what it gave
    \* ---- two TaskGenerator instances given the same decoded array
    task_data_list,     \* the decoded array both instances are run over
    twins,              \* per instance: its task_counter and what generate_tasks gave
    \* ---- the caller of a MidsceneInsight and its TaskContext object
    caller_context,     \* the caller's TaskContext object as it is now
    context_at_call,    \* the caller's TaskContext as it was at the last call
    sequence_context    \* the object the context field of the returned sequence
                        \* refers to: "caller" (the caller's), "own", "none"

retryVars == <<retry_times, validation_func, pc, attempt, calls, sleeps, result>>
taskVars == <<task_data, stage, task, code>>
generatorVars == <<tg_task_counter, tg_assigned>>
sessionVars == <<sm_task_counter, sm_assigned, sequence_counter, outcome>>
validatorVars == <<validation>>
caseVars == <<clock, files, report>>
twinVars == <<task_data_list, twins>>
contextVars == <<caller_context, context_at_call, sequence_context>>

vars ==
    <<retryVars, taskVars, generatorVars, sessionVars, validatorVars, caseVars, twinVars,
      contextVars>>

\* =====================================================================
\* Python values
\* =====================================================================

\* str(x) inside an f-string
Str(x) == IF x = None THEN "None" ELSE x

\* A value decoded from JSON, or the absence of the key.
JStr(text) == [j |-> "str", s |-> text]
JNull == [j |-> "null", s |-> ""]
JNum(text) == [j |-> "num", s |-> text]
JList(text) == [j |-> "list", s |-> text]      \* the array [text]; unhashable
JAbsent == [j |-> "absent", s |-> ""]

\* dict.get(key, default)
DictGet(v, default) == IF v.j = "absent" THEN default ELSE v

\* hash(v) succeeds: lists (and dicts) are unhashable
Hashable(v) == v.j # "list"

\* bool(v)
Truthy(v) ==
    CASE v.j = "str" -> v.s # ""
      [] v.j = "num" -> v.s # "0"
      [] v.j = "list" -> TRUE
      [] OTHER -> FALSE

\* The element of a one-element set.  Written The({e(x) : x \in {v}}), it
\* names the value v as x, a local variable of the code that is assigned
\* once and read several times.
The(S) == CHOOSE x \in S : TRUE

\* format(n, "d") and the zero padding of ":04d"
Digit(d) == SubSeq("0123456789", d + 1, d + 1)
DigitValue(ch) == CHOOSE d \in 0 .. 9 : Digit(d) = ch

RECURSIVE IntToStr(_)
IntToStr(n) == IF n < 10 THEN Digit(n) ELSE IntToStr(n \div 10) \o Digit(n % 10)

RECURSIVE ZeroPad(_, _)
ZeroPad(text, width) == IF Len(text) >= width THEN text ELSE ZeroPad("0" \o text, width)

RECURSIVE StrToInt(_)
StrToInt(text) ==
    IF Len(text) = 0 THEN 0
    ELSE 10 * StrToInt(SubSeq(text, 1, Len(text) - 1))
         + DigitValue(SubSeq(text, Len(text), Len(text)))

\* =====================================================================
\* core/enums.py
\* =====================================================================
TaskType == {"locate", "action", "extract", "assert", "wait"}
ActionType == {"click", "input", "scroll", "hover", "keyboard", "navigate"}

\* =====================================================================
\* TaskGenerator (core/midscene_insight.py)
\* =====================================================================

\* the width of ":04d" in generate_task_id
TaskIdWidth == 4

FormatTaskIdUnpadded(n) == "task_" \o IntToStr(n)
FormatTaskId(n) == "task_" \o ZeroPad(IntToStr(n), TaskIdWidth)

\* generate_task_id: the counter after the call and the identifier returned
GenerateTaskIdStuck(counter) == [counter |-> counter, id |-> FormatTaskId(counter + 1)]
GenerateTaskId(counter) == [counter |-> counter + 1, id |-> FormatTaskId(counter + 1)]

\* "raw_type in valid_action_types" (line 339) for a hashable raw_type
IsActionTypeStringNever(raw_type) == FALSE
IsActionTypeString(raw_type) == raw_type.j = "str" /\ raw_type.s \in ActionType

\* TaskType(raw_type) with ValueError caught (lines 345-349)
ParseTaskType(raw_type) ==
    IF raw_type.j = "str" /\ raw_type.s \in TaskType THEN raw_type.s ELSE "action"

\* ActionType(raw_action_type) with ValueError caught (lines 352-358)
ParseActionType(raw_action_type) ==
    IF Truthy(raw_action_type) /\ raw_action_type.j = "str" /\ raw_action_type.s \in ActionType
        THEN raw_action_type.s
        ELSE None

\* _normalize_task_types.  The membership test of line 339 hashes raw_type
\* and raises TypeError, which nothing catches, when it is unhashable.
NormalizeTaskTypes(raw_type, raw_action_type) ==
    IF ~Hashable(raw_type)
        THEN [raised |-> TRUE, task_type |-> None, action_type |-> None]
    ELSE IF IsActionTypeString(raw_type)
        THEN [raised |-> FALSE, task_type |-> "action", action_type |-> raw_type.s]
    ELSE [raised |-> FALSE,
          task_type |-> ParseTaskType(raw_type),
          action_type |-> ParseActionType(raw_action_type)]

\* {} as a dict
EmptyDict == <<>>

\* An element of the decoded array: a dict (dict = TRUE) with the keys the
\* builder reads, or something that is not a dict (a number, a string).
Item(type, action_type, description, target, value, parameters) ==
    [dict |-> TRUE, type |-> type, action_type |-> action_type,
     description |-> description, target |-> target, value |-> value,
     parameters |-> parameters]
NotADict ==
    [dict |-> FALSE, type |-> JAbsent, action_type |-> JAbsent,
     description |-> "", target |-> None, value |-> None, parameters |-> EmptyDict]

\* The Task dataclass
Task(id, type, description, target, value, action_type, parameters) ==
    [id |-> id, type |-> type, description |-> description, target |-> target,
     value |-> value, action_type |-> action_type, parameters |-> parameters,
     priority |-> 0, dependencies |-> <<>>]
NoTask == Task(None, None, "", None, None, None, EmptyDict)

\* create_task_from_dict: the identifier is generated first (line 302), so
\* the counter has advanced even when the record then makes the build raise
\* (task_data.get on a non-dict, or the TypeError of the normalizer).
CreateTaskFromDict(counter, item) ==
    LET g == GenerateTaskId(counter)
        n == NormalizeTaskTypes(DictGet(item.type, JStr("action")),
                                DictGet(item.action_type, JNull))
    IN  IF ~item.dict \/ n.raised
            THEN [raised |-> TRUE, counter |-> g.counter, id |-> g.id, task |-> NoTask]
            ELSE [raised |-> FALSE, counter |-> g.counter, id |-> g.id,
                  task |-> Task(g.id, n.task_type, item.description, item.target,
                                item.value, n.action_type, item.parameters)]

\* =====================================================================
\* TestScriptGenerator (core/generator_step.py)
\* =====================================================================
Code(text) == [raised |-> FALSE, text |-> text]
Raises == [raised |-> TRUE, text |-> ""]

\* json.dumps of the whole parameters dict, in place of the two keys picked
OptionsStrAll(options) ==
    "{\"direction\": \"" \o options["direction"] \o "\", \"scrollType\": \""
        \o options["scrollType"] \o "\""
        \o (IF "extra" \in DOMAIN options
               THEN ", \"extra\": \"" \o options["extra"] \o "\"" ELSE "")
        \o "}"
\* json.dumps({'direction': ..., 'scrollType': ...}) of line 162
OptionsStr(options) ==
    "{\"direction\": \"" \o options["direction"] \o "\", \"scrollType\": \""
        \o options["scrollType"] \o "\"}"

\* _action_task_to_code.  The last branch reads task.action_type.value,
\* which raises AttributeError when action_type is None.
\* (the comment reads "  // TODO: 处理操作类型 ..." in the source)
ActionTaskToCode(t) ==
    IF t.action_type = "input"
        THEN Code("  await aiInput('" \o Str(t.value) \o "','" \o Str(t.target) \o "');")
    ELSE IF t.action_type = "click"
        THEN Code("  await aiTap('" \o Str(t.target) \o "');")
    ELSE IF t.action_type = "scroll"
        THEN IF "direction" \in DOMAIN t.parameters /\ "scrollType" \in DOMAIN t.parameters
                THEN IF t.target # None /\ t.target # ""
                        THEN Code("  await aiScroll(" \o OptionsStr(t.parameters)
                                  \o ", '" \o t.target \o "');")
                        ELSE Code("  await aiScroll(" \o OptionsStr(t.parameters) \o ");")
                ELSE Code("  await aiScroll({ direction: 'down', scrollType: 'once' });")
    ELSE IF t.action_type = None
        THEN Raises
    ELSE Code("  // TODO: chuli caozuo leixing " \o t.action_type \o ": " \o t.description)

\* text contains the substring key ("key in text")
Contains(text, key) ==
    \E i \in 1 .. (Len(text) - Len(key) + 1) : SubSeq(text, i, i + Len(key) - 1) = key

\* parameters.get(key, default)
ParamGet(parameters, key, default) ==
    IF key \in DOMAIN parameters THEN parameters[key] ELSE default

\* _generate_variable_name.  The keywords of the source are, in order,
\* "商品" (shangpin), "产品" (chanpin), "用户" (yonghu), "账户" (zhanghu) and
\* "数据" (shuju).
GenerateVariableNameDataFirst(description) ==
    IF Contains(description, "shuju")
        THEN "data"
    ELSE IF Contains(description, "shangpin") \/ Contains(description, "chanpin")
        THEN "items"
    ELSE IF Contains(description, "yonghu") \/ Contains(description, "zhanghu")
        THEN "userInfo"
    ELSE "extractedData"
GenerateVariableName(description) ==
    IF Contains(description, "shangpin") \/ Contains(description, "chanpin")
        THEN "items"
    ELSE IF Contains(description, "yonghu") \/ Contains(description, "zhanghu")
        THEN "userInfo"
    ELSE IF Contains(description, "shuju")
        THEN "data"
    ELSE "extractedData"

\* _extract_task_to_code
ExtractTaskToCode(t) ==
    LET return_type == ParamGet(t.parameters, "return_type", "any")
        var_name == GenerateVariableName(t.description)
    IN  Code("  const " \o var_name \o " = await aiQuery<" \o return_type \o ">(\n"
             \o "    '" \o Str(t.target) \o "'\n"
             \o "  );\n"
             \o "  console.log('" \o t.description \o ":', " \o var_name \o ");")

\* the default of parameters.get('timeoutMs', 10000)
DefaultTimeoutMs == 10000

\* _assert_task_to_code (timeoutMs is a JSON number, formatted by the f-string)
AssertTaskToCodeAlways(t) ==
    Code("  await aiAssert('" \o Str(t.target) \o "', { timeoutMs: "
         \o IntToStr(ParamGet(t.parameters, "timeoutMs", DefaultTimeoutMs)) \o " });")
AssertTaskToCode(t) ==
    IF "timeoutMs" \in DOMAIN t.parameters
        THEN Code("  await aiAssert('" \o Str(t.target) \o "', { timeoutMs: "
                  \o IntToStr(ParamGet(t.parameters, "timeoutMs", DefaultTimeoutMs))
                  \o " });")
        ELSE Code("  await aiAssert('" \o Str(t.target) \o "');")

\* _wait_task_to_code
WaitTaskToCodeNoDefault(t) ==
    IF "timeoutMs" \in DOMAIN t.parameters
        THEN Code("  await aiWaitFor('" \o Str(t.target) \o "', { timeoutMs: "
                  \o IntToStr(t.parameters["timeoutMs"]) \o " });")
        ELSE Code("  await aiWaitFor('" \o Str(t.target) \o "');")
WaitTaskToCode(t) ==
    Code("  await aiWaitFor('" \o Str(t.target) \o "', { timeoutMs: "
         \o IntToStr(ParamGet(t.parameters, "timeoutMs", DefaultTimeoutMs)) \o " });")

\* task_to_code
\* (the comment of the last branch reads "  // TODO: 处理任务类型 ..." in the source)
TaskToCode(t) ==
    IF t.type = "action" THEN ActionTaskToCode(t)
    ELSE IF t.type = "extract" THEN ExtractTaskToCode(t)
    ELSE IF t.type = "assert" THEN AssertTaskToCode(t)
    ELSE IF t.type = "wait" THEN WaitTaskToCode(t)
    ELSE Code("  // TODO: chuli renwu leixing " \o t.type \o ": " \o t.description)

\* =====================================================================
\* One raw record through create_task_from_dict and task_to_code
\* =====================================================================

\* The values the "type" key of a record can hold.
RawTypes ==
    {JStr(x) : x \in TaskType \cup ActionType \cup {"bogus", ""}}
        \cup {JAbsent, JNull, JNum("5"), JList("click")}

\* The values the "action_type" key of a record can hold.
RawActionTypes ==
    {JStr(x) : x \in ActionType \cup {"bogus", ""}}
        \cup {JAbsent, JNull, JList("click")}

\* The "parameters" a scroll record can hold: none, one or both of the two
\* keys the compiler reads, and a key it does not read.
ScrollParameters ==
    {EmptyDict, [extra |-> "ignored"], [direction |-> "up"],
     [scrollType |-> "untilBottom"], [direction |-> "up", scrollType |-> "once"],
     [direction |-> "down", scrollType |-> "untilBottom", extra |-> "ignored"]}

\* The "parameters" an assert or wait record can hold.
TimeoutParameters ==
    {EmptyDict, [extra |-> "ignored"], [timeoutMs |-> 5000], [timeoutMs |-> 0],
     [timeoutMs |-> 10000], [timeoutMs |-> 30000, extra |-> "ignored"]}

\* The descriptions of the extract records: "用户信息" (yonghuxinxi),
\* "提取数据: 用户" (the description ai_query gives the query "用户"),
\* "商品和用户" (shangpin he yonghu), "账户数据" (zhanghushuju), "数据",
\* "产品", and texts without any of the keywords.
ExtractDescriptions ==
    {"yonghuxinxi", "tiqushuju: yonghu", "shangpin he yonghu", "zhanghushuju",
     "shuju", "chanpin", "user info", "User Info", "product data", "d"}

\* Records with parameters, targets and descriptions the templates read.
ParameterItems ==
    {Item(JStr("scroll"), JAbsent, "d", tg, None, ps) :
        tg \in {"t", "", None}, ps \in ScrollParameters}
        \cup {Item(JStr(ty), JAbsent, "d", "t", None, ps) :
                 ty \in {"assert", "wait"}, ps \in TimeoutParameters}
        \cup {Item(JStr("extract"), JAbsent, ds, "q", None, ps) :
                 ds \in ExtractDescriptions,
                 ps \in {EmptyDict, [return_type |-> "string"]}}

\* The records and non-records explored one at a time.
TaskItems ==
    {Item(ty, at, "d", "t", "v", EmptyDict) : ty \in RawTypes, at \in RawActionTypes}
        \cup {NotADict} \cup ParameterItems

\* create_task_from_dict on a fresh TaskGenerator
BuildTask ==
    /\ stage = "raw"
    /\ LET r == CreateTaskFromDict(tg_task_counter, task_data)
       IN  /\ tg_task_counter' = r.counter
           /\ tg_assigned' = Append(tg_assigned, r.id)
           /\ task' = r.task
           /\ stage' = IF r.raised THEN "build_raised" ELSE "built"
    /\ UNCHANGED <<task_data, code>>

\* task_to_code on the Task that was built
CompileTask ==
    /\ stage = "built"
    /\ LET c == TaskToCode(task)
       IN  /\ code' = c.text
           /\ stage' = IF c.raised THEN "compile_raised" ELSE "compiled"
    /\ UNCHANGED <<task_data, task, tg_task_counter, tg_assigned>>

\* =====================================================================
\* SingleInstructionMapper (core/midscene_insight.py)
\* =====================================================================

\* {**a, **b}, and a.copy() followed by update(b)
DictMerge(a, b) ==
    [k \in (DOMAIN a) \cup (DOMAIN b) |-> IF k \in DOMAIN b THEN b[k] ELSE a[k]]

\* bool(x) of an optional str
Given(x) == x # None /\ x # ""

\* One entry of the calls list, with its arguments named: s1 and s2 are the
\* str arguments in positional order (None when left out), options is the
\* dict argument of aiScroll and aiWaitFor ({} also stands for a missing
\* one, both being falsy), kwargs the keyword arguments.
Call(method, s1, s2, options, kwargs) ==
    [method |-> method, s1 |-> s1, s2 |-> s2, options |-> options, kwargs |-> kwargs]

\* SingleInstructionMapper.generate_task_id
MapperGenerateTaskId(counter) == [counter |-> counter + 1, id |-> FormatTaskId(counter + 1)]

\* ai_input: "在{target}中输入{value}"
AiInput(id, c) ==
    Task(id, "action", "zai" \o Str(c.s1) \o "zhongshuru" \o Str(c.s2),
         c.s1, c.s2, "input", c.kwargs)

\* ai_tap: "点击{target}"
AiTap(id, c) ==
    Task(id, "action", "dianji" \o Str(c.s1), c.s1, None, "click", c.kwargs)

\* ai_scroll: "向{direction}滚动", then "到{target}", then "({scroll_type})"
AiScroll(id, c) ==
    LET direction == ParamGet(c.options, "direction", "down")
        scroll_type == ParamGet(c.options, "scrollType", "once")
        description ==
            "xiang" \o direction \o "gundong"
                \o (IF Given(c.s1) THEN "dao" \o c.s1 ELSE "")
                \o (IF scroll_type # "once" THEN "(" \o scroll_type \o ")" ELSE "")
    IN  Task(id, "action", description, c.s1, None, "scroll",
             DictMerge(c.options, c.kwargs))

\* ai_assert: "验证{assertion}"
AiAssert(id, c) ==
    Task(id, "assert", "yanzheng" \o Str(c.s1), c.s1, None, None, c.kwargs)

\* ai_query: "提取数据: {query}"
AiQuery(id, c) ==
    Task(id, "extract", "tiqushuju: " \o Str(c.s1), c.s1, None, None,
         IF Given(c.s2) THEN DictMerge(c.kwargs, [return_type |-> c.s2]) ELSE c.kwargs)

\* ai_wait_for: "等待{condition}"
AiWaitFor(id, c) ==
    Task(id, "wait", "dengdai" \o Str(c.s1), c.s1, None, None,
         DictMerge(c.kwargs, c.options))

\* ai_hover: "鼠标悬停在{target}"
AiHover(id, c) ==
    Task(id, "action", "shubiaoxuantingzai" \o Str(c.s1), c.s1, None, "hover", c.kwargs)

\* ai_keyboard_press: "按键{keys}", then "在{target}"
AiKeyboardPress(id, c) ==
    Task(id, "action",
         "anjian" \o Str(c.s1) \o (IF Given(c.s2) THEN "zai" \o c.s2 ELSE ""),
         c.s2, c.s1, "keyboard", c.kwargs)

\* page_goto: "导航到{url}"
PageGoto(id, c) ==
    Task(id, "action", "daohangdao" \o Str(c.s1), c.s1, None, "navigate", c.kwargs)

\* =====================================================================
\* MidsceneInsight (core/midscene_insight.py)
\* =====================================================================

\* the width of ":04d" in generate_sequence_id
SequenceIdWidth == 4

\* generate_sequence_id
GenerateSequenceId(counter) ==
    [counter |-> counter + 1,
     id |-> "sequence_" \o ZeroPad(IntToStr(counter + 1), SequenceIdWidth)]

\* the keys of method_map, in order
MethodNames ==
    <<"aiInput", "aiTap", "aiScroll", "aiAssert", "aiQuery", "aiWaitFor",
      "aiHover", "aiKeyboardPress", "pageGoto">>
MethodMap == {MethodNames[i] : i \in 1 .. Len(MethodNames)}

\* create_single_task: an unknown method raises ValueError before any
\* mapper method runs, so no identifier is generated for it.
CreateSingleTask(counter, c) ==
    IF c.method \notin MethodMap
        THEN [raised |-> TRUE, counter |-> counter, assigned |-> <<>>, task |-> NoTask]
    ELSE LET g == MapperGenerateTaskId(counter)
             t == CASE c.method = "aiInput" -> AiInput(g.id, c)
                    [] c.method = "aiTap" -> AiTap(g.id, c)
                    [] c.method = "aiScroll" -> AiScroll(g.id, c)
                    [] c.method = "aiAssert" -> AiAssert(g.id, c)
                    [] c.method = "aiQuery" -> AiQuery(g.id, c)
                    [] c.method = "aiWaitFor" -> AiWaitFor(g.id, c)
                    [] c.method = "aiHover" -> AiHover(g.id, c)
                    [] c.method = "aiKeyboardPress" -> AiKeyboardPress(g.id, c)
                    [] OTHER -> PageGoto(g.id, c)
         IN  [raised |-> FALSE, counter |-> g.counter, assigned |-> <<g.id>>, task |-> t]

\* The loop of generate_tasks (lines 374-377): the tasks built from the
\* items in order, up to the first item whose build raises.
RECURSIVE GenerateTasks(_, _)
GenerateTasks(counter, items) ==
    IF items = <<>>
        THEN [raised |-> FALSE, counter |-> counter, assigned |-> <<>>, tasks |-> <<>>]
    ELSE LET r == CreateTaskFromDict(counter, Head(items))
             rest == GenerateTasks(r.counter, Tail(items))
         IN  IF r.raised
                 THEN [raised |-> TRUE, counter |-> r.counter,
                       assigned |-> <<r.id>>, tasks |-> <<>>]
                 ELSE [raised |-> rest.raised, counter |-> rest.counter,
                       assigned |-> <<r.id>> \o rest.assigned,
                       tasks |-> IF rest.raised THEN <<>> ELSE <<r.task>> \o rest.tasks]

\* The loop of create_task_sequence_from_calls (lines 730-739).
RECURSIVE MapCalls(_, _)
MapCalls(counter, call_list) ==
    IF call_list = <<>>
        THEN [raised |-> FALSE, counter |-> counter, assigned |-> <<>>, tasks |-> <<>>]
    ELSE LET r == CreateSingleTask(counter, Head(call_list))
             rest == MapCalls(r.counter, Tail(call_list))
         IN  IF r.raised
                 THEN [raised |-> TRUE, counter |-> r.counter,
                       assigned |-> r.assigned, tasks |-> <<>>]
                 ELSE [raised |-> rest.raised, counter |-> rest.counter,
                       assigned |-> r.assigned \o rest.assigned,
                       tasks |-> IF rest.raised THEN <<>> ELSE <<r.task>> \o rest.tasks]

\* TaskContext() and the TaskSequence dataclass
DefaultContext ==
    [page_url |-> None, page_title |-> None, previous_actions |-> <<>>,
     current_state |-> EmptyDict]
TaskSequence(id, description, tasks, context, source) ==
    [id |-> id, description |-> description, tasks |-> tasks, context |-> context,
     metadata |-> [task_count |-> Len(tasks), source |-> source]]
NoSequence == TaskSequence(None, "", <<>>, DefaultContext, "")

\* What the session did last: the operation, its input, whether it raised
\* and the TaskSequence it returned.
Outcome(op, items, call_list, raised, sequence) ==
    [op |-> op, items |-> items, call_list |-> call_list, raised |-> raised,
     sequence |-> sequence]
NoOutcome == Outcome("none", <<>>, <<>>, FALSE, NoSequence)

\* What parse_compound_instruction gives: it raises (the Gateway failed, or
\* the reply holds no JSON), or it returns the decoded array.
TransportError == [kind |-> "transport_error", items |-> <<>>]
JsonError == [kind |-> "json_error", items |-> <<>>]
Decoded(items) == [kind |-> "array", items |-> items]

\* parse_instruction (lines 650-670: the tasks are generated first and the
\* sequence identifier after them), with a variant that generates the
\* sequence identifier first.
ParseInstructionIdFirst(instruction, reply) ==
    /\ sequence_counter' = sequence_counter + 1
    /\ \E r \in {GenerateTasks(tg_task_counter,
                               IF reply.kind = "array" THEN reply.items ELSE <<>>)} :
          /\ tg_task_counter' = r.counter
          /\ tg_assigned' = tg_assigned \o r.assigned
          /\ outcome' =
                IF reply.kind # "array" \/ r.raised
                    THEN Outcome("parse_instruction", reply.items, <<>>, TRUE, NoSequence)
                    ELSE Outcome("parse_instruction", reply.items, <<>>, FALSE,
                                 TaskSequence(GenerateSequenceId(sequence_counter).id,
                                              instruction, r.tasks, DefaultContext,
                                              "ai_parsing"))
ParseInstruction(instruction, reply) ==
    IF reply.kind # "array"
        THEN /\ outcome' = Outcome("parse_instruction", <<>>, <<>>, TRUE, NoSequence)
             /\ UNCHANGED <<tg_task_counter, tg_assigned, sequence_counter>>
    ELSE LET r == GenerateTasks(tg_task_counter, reply.items)
             g == GenerateSequenceId(sequence_counter)
         IN  /\ tg_task_counter' = r.counter
             /\ tg_assigned' = tg_assigned \o r.assigned
             /\ IF r.raised
                   THEN /\ outcome' = Outcome("parse_instruction", reply.items, <<>>,
                                              TRUE, NoSequence)
                        /\ UNCHANGED sequence_counter
                   ELSE /\ sequence_counter' = g.counter
                        /\ outcome' =
                              Outcome("parse_instruction", reply.items, <<>>, FALSE,
                                      TaskSequence(g.id, instruction, r.tasks,
                                                   DefaultContext, "ai_parsing"))

\* create_task_sequence_from_calls: "包含{len(tasks)}个任务的序列"
CreateTaskSequenceFromCalls(call_list) ==
    LET r == MapCalls(sm_task_counter, call_list)
        g == GenerateSequenceId(sequence_counter)
    IN  /\ sm_task_counter' = r.counter
        /\ sm_assigned' = sm_assigned \o r.assigned
        /\ IF r.raised
              THEN /\ outcome' = Outcome("create_task_sequence_from_calls", <<>>,
                                         call_list, TRUE, NoSequence)
                   /\ UNCHANGED sequence_counter
              ELSE /\ sequence_counter' = g.counter
                   /\ outcome' =
                         Outcome("create_task_sequence_from_calls", <<>>, call_list, FALSE,
                                 TaskSequence(g.id,
                                              "baohan" \o IntToStr(Len(r.tasks))
                                                  \o "gerenwudexulie",
                                              r.tasks, DefaultContext, "single_calls"))

\* validate_task_sequence: "not task.description", and for an ACTION task
\* "not task.target"; with a variant that wants a target on every task.
ValidateTaskSequenceAnyType(sequence) ==
    \A i \in 1 .. Len(sequence.tasks) :
        Given(sequence.tasks[i].description) /\ Given(sequence.tasks[i].target)
ValidateTaskSequence(sequence) ==
    \A i \in 1 .. Len(sequence.tasks) :
        /\ Given(sequence.tasks[i].description)
        /\ ~(sequence.tasks[i].type = "action" /\ ~Given(sequence.tasks[i].target))

\* What validate_task_sequence was last called on, and what it returned.
NoValidation == [done |-> FALSE, tasks |-> <<>>, result |-> TRUE]

\* TaskGenerator.__init__ (lines 279-281), with what its generate_tasks gave
\* once it ran.
FreshTaskGenerator == [task_counter |-> 0, ran |-> FALSE, raised |-> FALSE, tasks |-> <<>>]

\* self.task_counter of instance k (line 281: an attribute of the instance,
\* set in __init__); with a variant in which the instances share one counter.
TaskCounterShared(instances, k) == instances[1].task_counter + instances[2].task_counter
TaskCounterOf(instances, k) == instances[k].task_counter

\* "context=context" in the TaskSequence(...) of lines 661 and 746: the field
\* refers to the caller's TaskContext object when one was passed, and to the
\* TaskContext() made at lines 650-651 and 727-728 when none was.
ContextField(given) == IF given THEN "caller" ELSE "own"

\* =====================================================================
\* TestCaseGenerator (core/generator_case.py)
\* =====================================================================

\* The TestCaseConfig dataclass, and None where a config is expected.
TestCaseConfig(name, description, base_url, setup_actions, teardown_actions) ==
    [name |-> name, description |-> description, base_url |-> base_url,
     timeout |-> 30000, setup_actions |-> setup_actions,
     teardown_actions |-> teardown_actions]
NoConfig == TestCaseConfig(None, None, None, <<>>, <<>>)

\* sep.join(lines)
RECURSIVE Join(_, _)
Join(lines, sep) ==
    IF Len(lines) = 0 THEN ""
    ELSE IF Len(lines) = 1 THEN lines[1]
    ELSE lines[1] \o sep \o Join(Tail(lines), sep)

\* Lines 222-268: the imports, the beforeEach hook with the setup actions,
\* the afterEach hook when there are teardown actions, the head of the test.
ScriptPreamble(config) ==
    <<"import { expect } from \"@playwright/test\";",
      "import { test } from \"./fixture\";",
      "",
      "test.beforeEach(async ({ page }) => {",
      "  await page.goto(\"" \o config.base_url \o "\");",
      "  await page.waitForLoadState(\"networkidle\");",
      "  console.log('OPENAI_API_KEY:', process.env.OPENAI_API_KEY);">>
    \o [i \in 1 .. Len(config.setup_actions) |-> "  " \o config.setup_actions[i]]
    \o <<"});", "">>
    \o (IF config.teardown_actions # <<>>
           THEN <<"test.afterEach(async ({ page }) => {">>
                \o [i \in 1 .. Len(config.teardown_actions) |->
                       "  " \o config.teardown_actions[i]]
                \o <<"});", "">>
           ELSE <<>>)
    \o <<"test(\"" \o config.name \o "\", async ({",
         "  ai,", "  aiQuery,", "  aiAssert,", "  aiInput,", "  aiTap,", "  aiScroll,",
         "  aiWaitFor,", "  aiHover,", "  aiKeyboardPress,", "  page", "}) => {",
         "  // " \o config.description>>

\* Lines 272-273: a blank line before every task but the first (i is the
\* position of the task, from 1); with a variant that separates nothing.
TaskSeparatorNever(i) == <<>>
TaskSeparator(i) == IF i > 1 THEN <<"">> ELSE <<>>

\* Line 279: "task.action_type == ActionType.NAVIGATE" (task.type is not
\* looked at).
IsNavigate(t) == t.action_type = "navigate"

\* Line 281: "{task.target}" inside the double quotes of page.goto, written
\* as str() gives it, without any escaping; with a variant that writes the
\* task's value.
NavigateDestinationValue(t) == Str(t.value)
NavigateDestination(t) == Str(t.target)

\* Lines 276-286: the comment and the statement(s) of one task.
TaskLines(t) ==
    IF IsNavigate(t)
        THEN [raised |-> FALSE,
              lines |-> <<"  // " \o t.description,
                          "  await page.goto(\"" \o NavigateDestination(t) \o "\");",
                          "  await page.waitForLoadState(\"networkidle\");">>]
    ELSE LET c == TaskToCode(t)
         IN  [raised |-> c.raised, lines |-> <<"  // " \o t.description, c.text>>]

\* The loop of lines 271-286 from position i on.
RECURSIVE TaskBlock(_, _)
TaskBlock(tasks, i) ==
    IF i > Len(tasks) THEN [raised |-> FALSE, lines |-> <<>>]
    ELSE The({[raised |-> head.raised \/ rest.raised,
               lines |-> TaskSeparator(i) \o head.lines \o rest.lines] :
                 head \in {TaskLines(tasks[i])}, rest \in {TaskBlock(tasks, i + 1)}})

\* _generate_test_script
GenerateTestScript(sequence, config) ==
    The({IF block.raised THEN Raises
         ELSE Code(Join(ScriptPreamble(config) \o block.lines \o <<"});">>, "\n")) :
           block \in {TaskBlock(sequence.tasks, 1)}})

\* The state of one TestCaseGenerator as a value, so that a batch can hand
\* it from one case to the next: the counters of its MidsceneInsight and
\* the files written so far.
Generator ==
    [tg |-> tg_task_counter, tga |-> tg_assigned, sm |-> sm_task_counter,
     sma |-> sm_assigned, seq |-> sequence_counter, files |-> files]

\* TaskContext(page_url=config.base_url, page_title=config.name, previous_actions=[])
CaseContext(config) ==
    [page_url |-> config.base_url, page_title |-> config.name,
     previous_actions |-> <<>>, current_state |-> EmptyDict]

\* str(e) of what parse_instruction raises: "指令解析失败: ..." when the
\* Gateway failed, "AI返回的JSON格式无效: ..." when the reply holds no JSON,
\* and the AttributeError or TypeError of the build of the failing record.
ParseErrorText(reply, failing) ==
    IF reply.kind = "transport_error" THEN "zhilingjiexishibai: Connection error."
    ELSE IF reply.kind = "json_error"
        THEN "AIfanhuideJSONgeshiwuxiao: Expecting value: line 1 column 1 (char 0)"
    ELSE IF ~failing.dict THEN "'int' object has no attribute 'get'"
    ELSE "unhashable type: 'list'"

\* str(e) of the ValueError of create_single_task:
\* "不支持的方法: {method}。支持的方法: aiInput, aiTap, ..."; with a variant
\* that names the method only.
UnsupportedMethodTextShort(method) == "buzhichidefangfa: " \o Str(method)
UnsupportedMethodText(method) ==
    "buzhichidefangfa: " \o Str(method) \o ". zhichidefangfa: " \o Join(MethodNames, ", ")

\* parse_instruction on the generator g: what it gave and the generator after
ParseInstructionOn(g, instruction, context, reply) ==
    IF reply.kind # "array"
        THEN [raised |-> TRUE, error |-> ParseErrorText(reply, NotADict), g |-> g,
              sequence |-> NoSequence]
    ELSE The({IF r.raised
                  THEN [raised |-> TRUE,
                        error |-> ParseErrorText(reply, reply.items[Len(r.assigned)]),
                        g |-> [g EXCEPT !.tg = r.counter, !.tga = @ \o r.assigned],
                        sequence |-> NoSequence]
                  ELSE [raised |-> FALSE, error |-> None,
                        g |-> [g EXCEPT !.tg = r.counter, !.tga = @ \o r.assigned,
                                        !.seq = s.counter],
                        sequence |-> TaskSequence(s.id, instruction, r.tasks, context,
                                                  "ai_parsing")] :
                r \in {GenerateTasks(g.tg, reply.items)},
                s \in {GenerateSequenceId(g.seq)}})

\* create_task_sequence_from_calls on the generator g
CreateTaskSequenceFromCallsOn(g, call_list, context) ==
    The({IF r.raised
             THEN [raised |-> TRUE,
                   error |-> UnsupportedMethodText(call_list[Len(r.assigned) + 1].method),
                   g |-> [g EXCEPT !.sm = r.counter, !.sma = @ \o r.assigned],
                   sequence |-> NoSequence]
             ELSE [raised |-> FALSE, error |-> None,
                   g |-> [g EXCEPT !.sm = r.counter, !.sma = @ \o r.assigned,
                                   !.seq = s.counter],
                   sequence |-> TaskSequence(s.id,
                                             "baohan" \o IntToStr(Len(r.tasks))
                                                 \o "gerenwudexulie",
                                             r.tasks, context, "single_calls")] :
           r \in {MapCalls(g.sm, call_list)}, s \in {GenerateSequenceId(g.seq)}})

\* _generate_filename: every character outside [\w-] becomes "_", runs of
\* "_" are merged, a leading and a trailing "_" are stripped, and the
\* timestamp is appended.
GenerateFilename(test_name, now) ==
    LET WordChars == "abcdefghijklmnopqrstuvwxyzABCDEFGHIJKLMNOPQRSTUVWXYZ0123456789_-"
        Ch(c) == IF Contains(WordChars, c) THEN c ELSE "_"
        RECURSIVE Safe(_)
        Safe(text) ==
            IF Len(text) = 0 THEN ""
            ELSE The({IF c = "_" /\ Len(rest) > 0 /\ SubSeq(rest, 1, 1) = "_"
                          THEN rest ELSE c \o rest :
                        c \in {Ch(SubSeq(text, 1, 1))},
                        rest \in {Safe(SubSeq(text, 2, Len(text)))}})
        Left(merged) == IF Len(merged) > 0 /\ SubSeq(merged, 1, 1) = "_"
                            THEN SubSeq(merged, 2, Len(merged)) ELSE merged
        Right(left) == IF Len(left) > 0 /\ SubSeq(left, Len(left), Len(left)) = "_"
                           THEN SubSeq(left, 1, Len(left) - 1) ELSE left
    IN  The({Right(left) : left \in {The({Left(merged) : merged \in {Safe(test_name)}})}})
            \o "_" \o IntToStr(now) \o ".spec.ts"

\* os.path.join(self.output_dir, filename)
FilePath(filename) == "..\\e2e/" \o filename

\* What the environment does during one case: the reply of the model and
\* whether the script file can be written.
Env(reply, save_ok) == [reply |-> reply, save_ok |-> save_ok]

\* Lines 84-107 and 134-157: the script is generated, named and saved, and
\* the record is returned; any exception of the try block (d is what the
\* decomposition or the mapping gave) becomes a failure record.  key names
\* the input in the record ('natural_language' or 'steps').
FinishCase(d, key, data, config, save_ok) ==
    LET failure(error) ==
            [raised |-> FALSE, g |-> d.g, sequence |-> d.sequence,
             result |-> (key :> data)
                        @@ [success |-> FALSE, error |-> error, config |-> config]]
    IN  IF d.raised THEN failure(d.error)
        ELSE The({
            IF script.raised THEN failure("'NoneType' object has no attribute 'value'")
            ELSE IF ~save_ok
                THEN failure("baocunwenjianshibai: [Errno 13] Permission denied")
            ELSE [raised |-> FALSE, g |-> [d.g EXCEPT !.files = Append(@, filename)],
                  sequence |-> d.sequence,
                  result |-> (key :> data)
                             @@ [success |-> TRUE, filename |-> filename,
                                 filepath |-> FilePath(filename), script |-> script.text,
                                 task_count |-> Len(d.sequence.tasks), config |-> config]] :
              script \in {GenerateTestScript(d.sequence, config)},
              filename \in {GenerateFilename(config.name, clock)}})

\* generate_single_case_from_natural_language.  With config None the
\* TaskContext(...) of line 75 raises inside the try block.
GenerateSingleCaseFromNaturalLanguage(g, natural_language, config, env) ==
    IF config = NoConfig
        THEN [raised |-> FALSE, g |-> g, sequence |-> NoSequence,
              result |-> [success |-> FALSE,
                          error |-> "'NoneType' object has no attribute 'base_url'",
                          natural_language |-> natural_language, config |-> config]]
    ELSE The({FinishCase(d, "natural_language", natural_language, config, env.save_ok) :
                d \in {ParseInstructionOn(g, natural_language, CaseContext(config),
                                          env.reply)}})

\* generate_single_case_from_steps.  With config None the print of line
\* 120, which is before the try block, raises AttributeError to the caller.
\* (First a variant whose try block does not cover the mapping.)
GenerateSingleCaseFromStepsUncaught(g, steps, config, env) ==
    IF config = NoConfig \/ MapCalls(g.sm, steps).raised
        THEN [raised |-> TRUE, g |-> g, sequence |-> NoSequence, result |-> EmptyDict]
    ELSE The({FinishCase(d, "steps", steps, config, env.save_ok) :
                d \in {CreateTaskSequenceFromCallsOn(g, steps, CaseContext(config))}})
GenerateSingleCaseFromSteps(g, steps, config, env) ==
    IF config = NoConfig
        THEN [raised |-> TRUE, g |-> g, sequence |-> NoSequence, result |-> EmptyDict]
    ELSE The({FinishCase(d, "steps", steps, config, env.save_ok) :
                d \in {The({IF c.raised THEN c
                            ELSE [c EXCEPT !.sequence.description = config.description] :
                              c \in {CreateTaskSequenceFromCallsOn(
                                         g, steps, CaseContext(config))}})}})

\* One case of the cases list of generate_multiple_cases.
Case(type, data, config) == [type |-> type, data |-> data, config |-> config]

\* Lines 180-193: one case of the batch ("不支持的用例类型: {case_type}"),
\* first in a variant that raises on a case type it does not know.
ProcessCaseStrict(g, case, env) ==
    IF case.type = "natural_language"
        THEN GenerateSingleCaseFromNaturalLanguage(g, case.data, case.config, env)
    ELSE IF case.type = "steps"
        THEN GenerateSingleCaseFromSteps(g, case.data, case.config, env)
    ELSE [raised |-> TRUE, g |-> g, sequence |-> NoSequence, result |-> EmptyDict]
ProcessCase(g, case, env) ==
    IF case.type = "natural_language"
        THEN GenerateSingleCaseFromNaturalLanguage(g, case.data, case.config, env)
    ELSE IF case.type = "steps"
        THEN GenerateSingleCaseFromSteps(g, case.data, case.config, env)
    ELSE [raised |-> FALSE, g |-> g, sequence |-> NoSequence,
          result |-> [success |-> FALSE,
                      error |-> "buzhichideyonglileixing: " \o Str(case.type),
                      config |-> case.config]]

\* The loop of lines 177-202: the records collected up to the end of the
\* list, or up to the case at which a call raised.
RECURSIVE ProcessCases(_, _, _)
ProcessCases(g, cases, envs) ==
    IF cases = <<>>
        THEN [raised |-> FALSE, g |-> g, results |-> <<>>, sequences |-> <<>>]
    ELSE The({IF r.raised
                  THEN [raised |-> TRUE, g |-> r.g, results |-> <<>>, sequences |-> <<>>]
                  ELSE The({[raised |-> rest.raised, g |-> rest.g,
                             results |-> <<r.result>> \o rest.results,
                             sequences |-> <<r.sequence>> \o rest.sequences] :
                              rest \in {ProcessCases(r.g, Tail(cases), Tail(envs))}}) :
                r \in {ProcessCase(g, Head(cases), Head(envs))}})

\* Line 307: "if result['success']", the records that get a test block in
\* the summary; with a variant that gives every record one.
InSummaryAlways(record) == TRUE
InSummary(record) == record.success

\* _generate_summary_script ("// 自动生成的测试套件", "// 生成时间: ...",
\* "// 包含 N 个测试用例"; the time is written as the clock reading).
GenerateSummaryScript(results) ==
    LET successes == {i \in 1 .. Len(results) : results[i].success}
        block(config) ==
            <<"test(\"" \o config.name \o "\", async ({ page, ai, aiQuery, aiAssert, "
                  \o "aiInput, aiTap, aiScroll, aiWaitFor }) => {",
              "  // " \o config.description,
              "  await page.goto(\"" \o config.base_url \o "\");",
              "  await page.waitForLoadState(\"networkidle\");",
              "",
              "  // TODO: zaizheli tianjia jutide ceshibuzhou",
              "  // cankao duiyingde dandu ceshiwenjian",
              "",
              "});",
              "">>
        RECURSIVE blocks(_)
        blocks(i) ==
            IF i > Len(results) THEN <<>>
            ELSE (IF InSummary(results[i]) THEN block(results[i].config) ELSE <<>>)
                     \o blocks(i + 1)
    IN  Join(<<"import { expect } from \"@playwright/test\";",
               "import { test } from \"./fixture\";",
               "",
               "// zidong shengchengde ceshitaojian",
               "// shengchengshijian: " \o IntToStr(clock),
               "// baohan " \o IntToStr(Cardinality(successes)) \o " ge ceshiyongli",
               "">> \o blocks(1), "\n")

\* generate_multiple_cases: the loop, then the summary script is generated
\* and saved (the save raising to the caller when it fails).
GenerateMultipleCases(g, cases, envs, summary_save_ok) ==
    The({IF p.raised \/ ~summary_save_ok
             THEN [raised |-> TRUE, g |-> p.g, results |-> p.results,
                   sequences |-> p.sequences, value |-> EmptyDict]
             ELSE LET successful_count ==
                          Cardinality({i \in 1 .. Len(p.results) : p.results[i].success})
                      failed_count ==
                          Cardinality({i \in 1 .. Len(p.results) : ~p.results[i].success})
                  IN  [raised |-> FALSE,
                       g |-> [p.g EXCEPT !.files = Append(@, summary_filename)],
                       results |-> p.results, sequences |-> p.sequences,
                       value |-> [total_cases |-> Len(cases),
                                  successful_count |-> successful_count,
                                  failed_count |-> failed_count,
                                  results |-> p.results,
                                  summary_script |-> GenerateSummaryScript(p.results),
                                  summary_filename |-> summary_filename,
                                  summary_filepath |-> FilePath(summary_filename)]] :
           p \in {ProcessCases(g, cases, envs)},
           summary_filename \in {"test_suite_" \o IntToStr(clock) \o ".spec.ts"}})

\* What the generator did last: the operation, its cases (one for the
\* single-case entry points) and their environment, whether it raised, the
\* records and the sequences of the cases it went through, and the value
\* returned ({} when it raised).
Report(op, cases, envs, r, value) ==
    [op |-> op, cases |-> cases, envs |-> envs, raised |-> r.raised,
     results |-> r.results, sequences |-> r.sequences, value |-> value]
NoReport ==
    [op |-> "none", cases |-> <<>>, envs |-> <<>>, raised |-> FALSE,
     results |-> <<>>, sequences |-> <<>>, value |-> EmptyDict]

\* =====================================================================
\* LLMManager.chat_with_retry
\* =====================================================================

\* response.choices[0].message.content: a text, or None
Contents == {"c1", "c2", None}

\* What validation_func(content) does: returns truthy, returns falsy, raises.
Verdicts == {"accept", "reject", "raise"}

\* The validation_func argument: None (the default, given = FALSE) or a
\* callable, known by its verdict on each content.
\* (Calling None raises TypeError, hence the verdict of the absent validator.)
NoValidationFunc == [given |-> FALSE, verdict |-> [c \in Contents |-> "raise"]]
ValidationFuncs ==
    {NoValidationFunc} \cup {[given |-> TRUE, verdict |-> f] : f \in [Contents -> Verdicts]}

\* One Gateway call as recorded in calls.
OkCall(c) == [ok |-> TRUE, content |-> c]
FailedCall == [ok |-> FALSE, content |-> None]

\* range(retry_times + 1), line 79, with an off-by-one variant.
AttemptRangeShort(n) == 0 .. (n - 1)
AttemptRange(n) == 0 .. n

\* Line 88: "if validation_func is None: return content".
IsUnvalidatedNever(v) == FALSE
IsUnvalidated(v) == ~v.given

\* Line 90: "if validation_func(content)".
AcceptsAnything(v, c) == v.verdict[c] # "raise"
Accepts(v, c) == v.verdict[c] = "accept"

\* Lines 99-101: the except clause re-raises; a variant that swallows the
\* failure and goes on to the next attempt.
OnFailureSwallow ==
    /\ attempt' = attempt + 1
    /\ pc' = IF attempt + 1 \in AttemptRange(retry_times) THEN "running" ELSE "returned"
OnFailure ==
    /\ attempt' = attempt
    /\ pc' = "raised"

\* The call of chat_with_retry: line 78 and the loop header.
ChatWithRetry(v) ==
    /\ pc \in {"idle", "returned", "raised"}
    /\ validation_func' = v
    /\ attempt' = 0
    /\ calls' = <<>>
    /\ sleeps' = 0
    /\ result' = None
    /\ pc' = IF 0 \in AttemptRange(retry_times) THEN "running" ELSE "returned"
    /\ UNCHANGED retry_times

InLoop == pc = "running" /\ attempt \in AttemptRange(retry_times)

\* Lines 81-87 raise (transport failure, or a malformed response object).
GatewayFails ==
    /\ InLoop
    /\ calls' = Append(calls, FailedCall)
    /\ OnFailure
    /\ UNCHANGED <<retry_times, validation_func, sleeps, result>>

\* Lines 88-89: no validator, the content is returned as it is.
ReturnUnvalidated(c) ==
    /\ InLoop
    /\ IsUnvalidated(validation_func)
    /\ calls' = Append(calls, OkCall(c))
    /\ result' = c
    /\ pc' = "returned"
    /\ UNCHANGED <<retry_times, validation_func, attempt, sleeps>>

\* Lines 90-91: the validator accepts the content.
ReturnValidated(c) ==
    /\ InLoop
    /\ ~IsUnvalidated(validation_func)
    /\ validation_func.verdict[c] # "raise"
    /\ Accepts(validation_func, c)
    /\ calls' = Append(calls, OkCall(c))
    /\ result' = c
    /\ pc' = "returned"
    /\ UNCHANGED <<retry_times, validation_func, attempt, sleeps>>

\* Lines 92-98 and 102: the validator rejects the content; sleep and go on
\* while attempts are left, else fall out of the loop and return None.
RejectContent(c) ==
    /\ InLoop
    /\ ~IsUnvalidated(validation_func)
    /\ validation_func.verdict[c] # "raise"
    /\ ~Accepts(validation_func, c)
    /\ calls' = Append(calls, OkCall(c))
    /\ attempt' = attempt + 1
    /\ IF attempt < retry_times
          THEN /\ sleeps' = sleeps + 1
               /\ pc' = IF attempt + 1 \in AttemptRange(retry_times)
                           THEN "running" ELSE "returned"
          ELSE /\ sleeps' = sleeps
               /\ pc' = "returned"
    /\ result' = None
    /\ UNCHANGED <<retry_times, validation_func>>

\* Line 90 raises inside the try: caught at line 99 and re-raised.
ValidatorRaises(c) ==
    /\ InLoop
    /\ ~IsUnvalidated(validation_func)
    /\ validation_func.verdict[c] = "raise"
    /\ calls' = Append(calls, OkCall(c))
    /\ OnFailure
    /\ UNCHANGED <<retry_times, validation_func, sleeps, result>>

\* The parts of the state a specification does not exercise stay as built.
RetryIdle ==
    /\ validation_func = NoValidationFunc
    /\ pc = "idle"
    /\ attempt = 0
    /\ calls = <<>>
    /\ sleeps = 0
    /\ result = None
TaskIdle ==
    /\ task_data = NotADict
    /\ stage = "raw"
    /\ task = NoTask
    /\ code = ""
GeneratorFresh ==
    /\ tg_task_counter = 0
    /\ tg_assigned = <<>>

SessionFresh ==
    /\ sm_task_counter = 0
    /\ sm_assigned = <<>>
    /\ sequence_counter = 0
    /\ outcome = NoOutcome

ValidatorIdle == validation = NoValidation
TwinIdle ==
    /\ task_data_list = <<>>
    /\ twins = [k \in 1 .. 2 |-> FreshTaskGenerator]
ContextIdle ==
    /\ caller_context = DefaultContext
    /\ context_at_call = DefaultContext
    /\ sequence_context = "none"
CaseIdle ==
    /\ clock = 1
    /\ files = <<>>
    /\ report = NoReport

InitRetry ==
    /\ retry_times \in 0 .. MaxRetryTimes
    /\ RetryIdle
    /\ TaskIdle
    /\ GeneratorFresh
    /\ SessionFresh
    /\ ValidatorIdle
    /\ TwinIdle
    /\ ContextIdle
    /\ CaseIdle

StartChat == \E v \in ValidationFuncs : ChatWithRetry(v)
ReturnFirst == \E c \in Contents : ReturnUnvalidated(c)
ReturnAccepted == \E c \in Contents : ReturnValidated(c)
RetryRejected == \E c \in Contents : RejectContent(c)
ValidatorFails == \E c \in Contents : ValidatorRaises(c)

NextRetry ==
    \/ StartChat
          /\ UNCHANGED <<taskVars, generatorVars, sessionVars, validatorVars, caseVars, twinVars, contextVars>>
    \/ GatewayFails
          /\ UNCHANGED <<taskVars, generatorVars, sessionVars, validatorVars, caseVars, twinVars, contextVars>>
    \/ ReturnFirst
          /\ UNCHANGED <<taskVars, generatorVars, sessionVars, validatorVars, caseVars, twinVars, contextVars>>
    \/ ReturnAccepted
          /\ UNCHANGED <<taskVars, generatorVars, sessionVars, validatorVars, caseVars, twinVars, contextVars>>
    \/ RetryRejected
          /\ UNCHANGED <<taskVars, generatorVars, sessionVars, validatorVars, caseVars, twinVars, contextVars>>
    \/ ValidatorFails
          /\ UNCHANGED <<taskVars, generatorVars, sessionVars, validatorVars, caseVars, twinVars, contextVars>>

SpecRetry == InitRetry /\ [][NextRetry]_vars

\* ------------------------------------------------ one record, end to end
InitTask ==
    /\ retry_times = 0
    /\ RetryIdle
    /\ task_data \in TaskItems
    /\ stage = "raw"
    /\ task = NoTask
    /\ code = ""
    /\ GeneratorFresh
    /\ SessionFresh
    /\ ValidatorIdle
    /\ TwinIdle
    /\ ContextIdle
    /\ CaseIdle

NextTask ==
    \/ BuildTask
          /\ UNCHANGED <<retryVars, sessionVars, validatorVars, caseVars, twinVars, contextVars>>
    \/ CompileTask
          /\ UNCHANGED <<retryVars, sessionVars, validatorVars, caseVars, twinVars, contextVars>>

SpecTask == InitTask /\ [][NextTask]_vars

\* ------------------------------------------- properties of chat_with_retry
Finished == pc \in {"returned", "raised"}
NoCallFailed == \A i \in 1 .. Len(calls) : calls[i].ok
RejectsEverything(v) == v.given /\ \A c \in Contents : v.verdict[c] = "reject"
VerdictOfCall(i) == validation_func.verdict[calls[i].content]

C2_FailurePropagatesImmediately ==
    \A i \in 1 .. Len(calls) :
        ~calls[i].ok => (i = Len(calls) /\ pc = "raised" /\ result = None)

\* A failure on the second attempt with budget left, under a validator.
C2_Witness ==
    /\ pc = "raised"
    /\ validation_func.given
    /\ Len(calls) = 2
    /\ calls[1].ok
    /\ ~calls[2].ok
    /\ attempt < retry_times

\* C3: under a validator, an accepted response ends the invocation at once
\* and is what is returned; every call before it was rejected; and a value
\* other than None is returned only if it is that accepted response.
C3_ReturnsFirstAccepted ==
    validation_func.given =>
        /\ \A i \in 1 .. Len(calls) :
              (calls[i].ok /\ VerdictOfCall(i) = "accept")
                  => /\ i = Len(calls)
                     /\ pc = "returned"
                     /\ result = calls[i].content
                     /\ \A j \in 1 .. (i - 1) : calls[j].ok /\ VerdictOfCall(j) = "reject"
        /\ (pc = "returned" /\ result # None)
              => /\ Len(calls) >= 1
                 /\ calls[Len(calls)].ok
                 /\ calls[Len(calls)].content = result
                 /\ VerdictOfCall(Len(calls)) = "accept"

\* c1 rejected, then c2 accepted and returned with budget left.
C3_Witness ==
    /\ pc = "returned"
    /\ validation_func.given
    /\ Len(calls) = 2
    /\ calls[1] = OkCall("c1")
    /\ validation_func.verdict["c1"] = "reject"
    /\ result = "c2"
    /\ attempt < retry_times

\* C4: without a validator a finished invocation has made exactly one
\* Gateway call and, that call having succeeded, has returned its content
\* unchanged and has not slept.
C4_NoValidatorSingleCall ==
    (~validation_func.given /\ pc # "idle") =>
        /\ Len(calls) <= 1
        /\ Finished => Len(calls) = 1
        /\ (Finished /\ calls[1].ok)
              => (pc = "returned" /\ result = calls[1].content /\ sleeps = 0)

\* No validator, a budget of at least two retries, one call, c1 returned.
C4_Witness ==
    /\ pc = "returned"
    /\ ~validation_func.given
    /\ retry_times >= 2
    /\ calls = <<OkCall("c1")>>
    /\ result = "c1"

\* --------------------------------------------- a MidsceneInsight session
\* The elements of the decoded arrays explored: a well-formed record, a
\* record with the type and action_type slots confused, an "action" record
\* without action_type, a record whose type is an array, a non-record.
SessionItems ==
    {Item(JStr("action"), JStr("click"), "d1", "t", None, EmptyDict),
     Item(JStr("navigate"), JAbsent, "d2", "u", None, EmptyDict),
     Item(JStr("action"), JAbsent, "d3", "t", None, EmptyDict),
     Item(JList("click"), JAbsent, "d4", "t", None, EmptyDict),
     NotADict}

\* The calls explored: three of the catalog and one outside it.
SessionCalls ==
    {Call("aiTap", "t", None, EmptyDict, EmptyDict),
     Call("aiScroll", None, None, [direction |-> "up", scrollType |-> "once"], EmptyDict),
     Call("aiAssert", "a", None, EmptyDict, EmptyDict),
     Call("aiFoo", "t", None, EmptyDict, EmptyDict)}

\* sequences over S of length at most n
SeqUpTo(S, n) == UNION {[1 .. k -> S] : k \in 0 .. n}

Replies == {TransportError, JsonError} \cup {Decoded(items) : items \in SeqUpTo(SessionItems, MaxRecords)}

SessionOpen == sequence_counter < MaxSequences

ParseInstructionCall ==
    \E reply \in Replies :
        /\ SessionOpen
        /\ tg_task_counter + Len(reply.items) <= MaxTaskCounter
        /\ ParseInstruction("ins", reply)
        /\ UNCHANGED <<sm_task_counter, sm_assigned>>

CreateTaskSequenceFromCallsCall ==
    \E call_list \in SeqUpTo(SessionCalls, MaxRecords) :
        /\ SessionOpen
        /\ sm_task_counter + Len(call_list) <= MaxTaskCounter
        /\ CreateTaskSequenceFromCalls(call_list)
        /\ UNCHANGED <<tg_task_counter, tg_assigned>>

Init ==
    /\ retry_times = 0
    /\ RetryIdle
    /\ TaskIdle
    /\ GeneratorFresh
    /\ SessionFresh
    /\ ValidatorIdle
    /\ TwinIdle
    /\ ContextIdle
    /\ CaseIdle

Next ==
    \/ ParseInstructionCall
          /\ UNCHANGED <<retryVars, taskVars, validatorVars, caseVars, twinVars, contextVars>>
    \/ CreateTaskSequenceFromCallsCall
          /\ UNCHANGED <<retryVars, taskVars, validatorVars, caseVars, twinVars, contextVars>>

Spec == Init /\ [][Next]_vars

\* ------------------------------------------- validating a built sequence
\* The records validated: a complete one, one without description, ACTION
\* records with an empty and with no target, an ASSERT record with an empty
\* target.
ValidateItems ==
    {Item(JStr("click"), JAbsent, "d1", "t", None, EmptyDict),
     Item(JStr("click"), JAbsent, "", "t", None, EmptyDict),
     Item(JStr("click"), JAbsent, "d1", "", None, EmptyDict),
     Item(JStr("scroll"), JAbsent, "d4", None, None, EmptyDict),
     Item(JStr("assert"), JAbsent, "d5", "", None, EmptyDict)}

ParseForValidation ==
    \E items \in SeqUpTo(ValidateItems, MaxRecords) :
        /\ SessionOpen
        /\ tg_task_counter + Len(items) <= MaxTaskCounter
        /\ ParseInstruction("ins", Decoded(items))
        /\ UNCHANGED <<sm_task_counter, sm_assigned>>

\* validate_task_sequence on the sequence the session returned last
ValidateTaskSequenceCall ==
    /\ outcome.op # "none"
    /\ ~outcome.raised
    /\ validation' = [done |-> TRUE, tasks |-> outcome.sequence.tasks,
                      result |-> ValidateTaskSequence(outcome.sequence)]

NextValidate ==
    \/ ParseForValidation
          /\ UNCHANGED <<retryVars, taskVars, validatorVars, caseVars, twinVars, contextVars>>
    \/ CreateTaskSequenceFromCallsCall
          /\ UNCHANGED <<retryVars, taskVars, validatorVars, caseVars, twinVars, contextVars>>
    \/ ValidateTaskSequenceCall
          /\ UNCHANGED <<retryVars, taskVars, generatorVars, sessionVars, caseVars, twinVars, contextVars>>

SpecValidate == Init /\ [][NextValidate]_vars

\* ------------------------------------------------- a TestCaseGenerator
\* The cases explored, each with what the environment does during it: the
\* scenario of the specification (navigate, input, click), an EXTRACT record
\* that carries action_type navigate, replies that make the decomposition,
\* the build or the compilation fail, steps inside and outside the catalog,
\* a save that fails, a case type that is not known, cases without config,
\* a navigation target that holds double quotes.
Scenarios ==
    LET a == TestCaseConfig("search", "search the site", "https://example.com", <<>>, <<>>)
        b == TestCaseConfig("log in!", "log in", "https://example.com/login",
                            <<"await page.setViewportSize({ width: 1280, height: 720 });">>,
                            <<"await page.close();">>)
        good == Decoded(<<Item(JStr("navigate"), JAbsent, "open example.com",
                               "example.com", None, EmptyDict),
                          Item(JStr("action"), JStr("input"), "type hello into the search box",
                               "search box", "hello", EmptyDict),
                          Item(JStr("click"), JAbsent, "click the search button",
                               "search button", None, EmptyDict)>>)
        mixed == Decoded(<<Item(JStr("extract"), JStr("navigate"), "tiqushuju: yonghu",
                                "yonghu", None, EmptyDict),
                           Item(JStr("wait"), JAbsent, "wait for the list", "list",
                                None, [timeoutMs |-> 5000])>>)
        uncompilable == Decoded(<<Item(JStr("click"), JAbsent, "click it", "it", None, EmptyDict),
                                  Item(JStr("action"), JAbsent, "do it", "it", None, EmptyDict)>>)
        steps == <<Call("pageGoto", "https://example.com/a", None, EmptyDict, EmptyDict),
                   Call("aiQuery", "yonghu", "string", EmptyDict, EmptyDict),
                   Call("aiTap", "search button", None, EmptyDict, EmptyDict)>>
        foo == <<Call("aiTap", "b", None, EmptyDict, EmptyDict),
                 Call("aiFoo", "t", None, EmptyDict, EmptyDict)>>
        bar == <<Call("aiBar", "t", None, EmptyDict, EmptyDict),
                 Call("aiTap", "b", None, EmptyDict, EmptyDict)>>
        quoted == <<Call("pageGoto", "https://example.com/q?a=\"b\"", None,
                         EmptyDict, EmptyDict)>>
        sc(type, data, config, reply, save_ok) ==
            [case |-> Case(type, data, config), env |-> Env(reply, save_ok)]
    IN  {sc("natural_language", "open example.com; type hello; click", a, good, TRUE),
         sc("natural_language", "open example.com; type hello; click", a, good, FALSE),
         sc("natural_language", "read the user", b, mixed, TRUE),
         sc("natural_language", "nothing", a, Decoded(<<>>), TRUE),
         sc("natural_language", "x", a, TransportError, TRUE),
         sc("natural_language", "x", a, JsonError, TRUE),
         sc("natural_language", "x", a, Decoded(<<NotADict>>), TRUE),
         sc("natural_language", "do it", a, uncompilable, TRUE),
         sc("natural_language", "x", NoConfig, good, TRUE),
         sc("steps", steps, b, JsonError, TRUE),
         sc("steps", steps, a, JsonError, FALSE),
         sc("steps", foo, a, JsonError, TRUE),
         sc("steps", bar, a, JsonError, TRUE),
         sc("steps", quoted, a, JsonError, TRUE),
         sc("steps", steps, NoConfig, JsonError, TRUE),
         sc("csv", "x", a, JsonError, TRUE)}

\* The generator after a call that left it as g.
SetGenerator(g) ==
    /\ tg_task_counter' = g.tg
    /\ tg_assigned' = g.tga
    /\ sm_task_counter' = g.sm
    /\ sm_assigned' = g.sma
    /\ sequence_counter' = g.seq
    /\ files' = g.files

\* A single-case entry point called on a fresh generator.
SingleCaseCall(op, sc, r) ==
    /\ report.op = "none"
    /\ SetGenerator(r.g)
    /\ report' = Report(op, <<sc.case>>, <<sc.env>>,
                        [raised |-> r.raised,
                         results |-> IF r.raised THEN <<>> ELSE <<r.result>>,
                         sequences |-> IF r.raised THEN <<>> ELSE <<r.sequence>>],
                        r.result)
    /\ UNCHANGED <<clock, outcome>>

GenerateSingleCaseFromNaturalLanguageCall ==
    \E sc \in Scenarios :
        /\ sc.case.type = "natural_language"
        /\ \E r \in {GenerateSingleCaseFromNaturalLanguage(
                         Generator, sc.case.data, sc.case.config, sc.env)} :
              SingleCaseCall("generate_single_case_from_natural_language", sc, r)

GenerateSingleCaseFromStepsCall ==
    \E sc \in Scenarios :
        /\ sc.case.type = "steps"
        /\ \E r \in {GenerateSingleCaseFromSteps(
                         Generator, sc.case.data, sc.case.config, sc.env)} :
              SingleCaseCall("generate_single_case_from_steps", sc, r)

\* generate_multiple_cases called on a fresh generator.
GenerateMultipleCasesCall ==
    \E scs \in SeqUpTo(Scenarios, MaxCases), summary_save_ok \in BOOLEAN :
        /\ report.op = "none"
        /\ \E cases \in {[i \in 1 .. Len(scs) |-> scs[i].case]},
              envs \in {[i \in 1 .. Len(scs) |-> scs[i].env]} :
              \E r \in {GenerateMultipleCases(Generator, cases, envs, summary_save_ok)} :
                  /\ SetGenerator(r.g)
                  /\ report' = Report("generate_multiple_cases", cases, envs, r, r.value)
        /\ UNCHANGED <<clock, outcome>>

InitCase ==
    /\ retry_times = 0
    /\ RetryIdle
    /\ TaskIdle
    /\ GeneratorFresh
    /\ SessionFresh
    /\ ValidatorIdle
    /\ TwinIdle
    /\ ContextIdle
    /\ clock \in 1 .. MaxClock
    /\ files = <<>>
    /\ report = NoReport

NextCase ==
    \/ GenerateSingleCaseFromNaturalLanguageCall
          /\ UNCHANGED <<retryVars, taskVars, validatorVars, twinVars, contextVars>>
    \/ GenerateSingleCaseFromStepsCall
          /\ UNCHANGED <<retryVars, taskVars, validatorVars, twinVars, contextVars>>
    \/ GenerateMultipleCasesCall
          /\ UNCHANGED <<retryVars, taskVars, validatorVars, twinVars, contextVars>>

SpecCase == InitCase /\ [][NextCase]_vars

\* ------------------------------------- two fresh TaskGenerator instances
\* generate_tasks of instance k over the decoded array (each instance is run
\* once).
GenerateTasksOn(k) ==
    /\ ~twins[k].ran
    /\ \E r \in {GenerateTasks(TaskCounterOf(twins, k), task_data_list)} :
          twins' = [twins EXCEPT ![k] = [task_counter |-> r.counter, ran |-> TRUE,
                                         raised |-> r.raised, tasks |-> r.tasks]]
    /\ UNCHANGED task_data_list

InitTwin ==
    /\ retry_times = 0
    /\ RetryIdle
    /\ TaskIdle
    /\ GeneratorFresh
    /\ SessionFresh
    /\ ValidatorIdle
    /\ CaseIdle
    /\ ContextIdle
    /\ task_data_list \in SeqUpTo(SessionItems, MaxRecords)
    /\ twins = [k \in 1 .. 2 |-> FreshTaskGenerator]

NextTwin ==
    \E k \in 1 .. 2 :
        GenerateTasksOn(k)
          /\ UNCHANGED <<retryVars, taskVars, generatorVars, sessionVars, validatorVars, caseVars, contextVars>>

SpecTwin == InitTwin /\ [][NextTwin]_vars

\* ------------------------------------- a caller that keeps its TaskContext
\* The TaskContext objects of the callers explored.
CallerContexts ==
    {[page_url |-> url, page_title |-> None, previous_actions |-> actions,
      current_state |-> EmptyDict] :
        url \in {None, "https://example.com"}, actions \in {<<>>, <<"opened the page">>}}

\* The replies and the calls lists of this session: they return an empty
\* sequence, return one task, or fail.
ContextReplies ==
    {TransportError, Decoded(<<>>), Decoded(<<NotADict>>),
     Decoded(<<Item(JStr("click"), JAbsent, "d1", "t", None, EmptyDict)>>)}
ContextCalls ==
    {<<Call("aiTap", "t", None, EmptyDict, EmptyDict)>>,
     <<Call("aiFoo", "t", None, EmptyDict, EmptyDict)>>}

\* The session and the caller after a call that gave r: the caller's object
\* is only read (lines 246-248), and the field of the returned sequence
\* refers to the object that was passed.
AfterCallWithContext(op, items, call_list, given, r) ==
    /\ SetGenerator(r.g)
    /\ outcome' = Outcome(op, items, call_list, r.raised, r.sequence)
    /\ caller_context' = caller_context
    /\ context_at_call' = caller_context
    /\ sequence_context' = IF r.raised THEN "none" ELSE ContextField(given)
    /\ UNCHANGED <<clock, report>>

\* parse_instruction(instruction, context) and parse_instruction(instruction)
ParseInstructionWithContext ==
    \E reply \in ContextReplies, given \in BOOLEAN :
        /\ SessionOpen
        /\ tg_task_counter + Len(reply.items) <= MaxTaskCounter
        /\ \E r \in {ParseInstructionOn(Generator, "ins",
                                         IF given THEN caller_context ELSE DefaultContext,
                                         reply)} :
              AfterCallWithContext("parse_instruction", reply.items, <<>>, given, r)

\* create_task_sequence_from_calls(calls, context) and without context
CreateTaskSequenceFromCallsWithContext ==
    \E call_list \in ContextCalls, given \in BOOLEAN :
        /\ SessionOpen
        /\ sm_task_counter + Len(call_list) <= MaxTaskCounter
        /\ \E r \in {CreateTaskSequenceFromCallsOn(
                         Generator, call_list,
                         IF given THEN caller_context ELSE DefaultContext)} :
              AfterCallWithContext("create_task_sequence_from_calls", <<>>, call_list,
                                   given, r)

\* The caller appends to the previous_actions list of its own TaskContext.
CallerAppends ==
    /\ Len(caller_context.previous_actions) < MaxPreviousActions
    /\ caller_context' =
          [caller_context EXCEPT !.previous_actions = Append(@, "clicked the button")]
    /\ UNCHANGED <<context_at_call, sequence_context>>

\* sequence.context as a reader of the returned sequence finds it now
ContextOfSequence ==
    IF sequence_context = "caller" THEN caller_context ELSE outcome.sequence.context

InitContext ==
    /\ retry_times = 0
    /\ RetryIdle
    /\ TaskIdle
    /\ GeneratorFresh
    /\ SessionFresh
    /\ ValidatorIdle
    /\ CaseIdle
    /\ TwinIdle
    /\ caller_context \in CallerContexts
    /\ context_at_call = caller_context
    /\ sequence_context = "none"

NextContext ==
    \/ ParseInstructionWithContext
          /\ UNCHANGED <<retryVars, taskVars, validatorVars, twinVars>>
    \/ CreateTaskSequenceFromCallsWithContext
          /\ UNCHANGED <<retryVars, taskVars, validatorVars, twinVars>>
    \/ CallerAppends
          /\ UNCHANGED <<retryVars, taskVars, generatorVars, sessionVars, validatorVars, caseVars, twinVars>>

SpecContext == InitContext /\ [][NextContext]_vars

\* ------------------------------- properties of the normalizer and compiler
WasBuilt == stage \in {"built", "compiled", "compile_raised"}
NamesTaskType(v) == v.j = "str" /\ v.s \in {"locate", "action", "extract", "assert", "wait"}
NamesActionType(v) ==
    v.j = "str" /\ v.s \in {"click", "input", "scroll", "hover", "keyboard", "navigate"}

\* C5: a record whose raw type is one of the six ActionType strings is built
\* without raising into an ACTION task whose action_type is that ActionType,
\* whatever its raw action_type holds.
C5_ActionTypeStringYieldsAction ==
    (stage # "raw" /\ task_data.dict /\ NamesActionType(task_data.type))
        => /\ stage # "build_raised"
           /\ task.type = "action"
           /\ task.action_type = task_data.type.s

\* type "navigate" with a conflicting action_type "click" becomes ACTION/navigate.
C5_Witness ==
    /\ stage = "built"
    /\ task_data.type = JStr("navigate")
    /\ task_data.action_type = JStr("click")
    /\ task.type = "action"
    /\ task.action_type = "navigate"

\* C6: a record whose raw type is neither a TaskType string nor an ActionType
\* string (a missing key included) is built without raising into an ACTION
\* task.
C6_UnknownTypeYieldsAction ==
    (stage # "raw" /\ task_data.dict
        /\ ~NamesTaskType(task_data.type) /\ ~NamesActionType(task_data.type))
        => /\ stage # "build_raised"
           /\ task.type = "action"

\* C7: every Task that was built with type ACTION carries one of the six
\* ActionType values as its action_type.
C7_ActionTaskHasActionType ==
    (WasBuilt /\ task.type = "action") => task.action_type \in ActionType

\* C27: when the raw type is not an ActionType string, the record is built
\* without raising and the task's action_type is the raw action_type when
\* that is an ActionType string and absent otherwise, whatever the task
\* type came out as; when the raw type is an ActionType string the raw
\* action_type is not looked at.
C27_ActionTypeParsedIndependently ==
    (stage # "raw" /\ task_data.dict)
        => IF NamesActionType(task_data.type)
               THEN stage # "build_raised" /\ task.action_type = task_data.type.s
               ELSE /\ stage # "build_raised"
                    /\ task.action_type =
                          (IF NamesActionType(task_data.action_type)
                              THEN task_data.action_type.s ELSE None)

\* the (task type, action type) pairs task_to_code has a template for
HasTemplate(t) ==
    \/ t.type \in {"extract", "assert", "wait"}
    \/ t.type = "action" /\ t.action_type \in {"input", "click", "scroll"}

\* C10: task_to_code never raises on a Task the builder produced, and a
\* Task without a template compiles to a comment naming its task type (or,
\* for ACTION, its action type).
C10_TaskToCodeNeverRaises ==
    /\ stage # "compile_raised"
    /\ (stage = "compiled" /\ ~HasTemplate(task))
          => /\ SubSeq(code, 1, 10) = "  // TODO:"
             /\ Contains(code, IF task.type = "action" THEN Str(task.action_type)
                                                        ELSE task.type)

\* ------------------------------------------- properties of the templates
Compiled(type) == stage = "compiled" /\ task.type = type
StartsWith(text, prefix) == SubSeq(text, 1, Len(prefix)) = prefix
EndsWith(text, suffix) ==
    Len(text) >= Len(suffix) /\ SubSeq(text, Len(text) - Len(suffix) + 1, Len(text)) = suffix
HasKey(t, key) == key \in DOMAIN t.parameters
CompiledScroll == Compiled("action") /\ task.action_type = "scroll"
DefaultScrollStatement == "  await aiScroll({ direction: 'down', scrollType: 'once' });"

\* C13: a SCROLL task whose parameters hold both direction and scrollType
\* compiles to a scroll statement whose options literal holds those two keys
\* with the task's values and nothing else of the parameters, followed by
\* the target as a second argument exactly when the task has a target.
C13_ScrollCarriesBothKeysOnly ==
    (CompiledScroll /\ HasKey(task, "direction") /\ HasKey(task, "scrollType"))
        => /\ StartsWith(code, "  await aiScroll({\"direction\": \""
                                  \o task.parameters["direction"]
                                  \o "\", \"scrollType\": \""
                                  \o task.parameters["scrollType"] \o "\"}")
           /\ ~Contains(code, "extra")
           /\ ~Contains(code, "ignored")
           /\ IF task.target # None /\ task.target # ""
                 THEN EndsWith(code, "\"}, '" \o task.target \o "');")
                 ELSE EndsWith(code, "\"});")

\* The scenario of the specification: down / untilBottom / extra, no target.
C13_Witness ==
    /\ CompiledScroll
    /\ task.parameters = [direction |-> "down", scrollType |-> "untilBottom",
                          extra |-> "ignored"]
    /\ task.target = None
    /\ code = "  await aiScroll({\"direction\": \"down\", \"scrollType\": \"untilBottom\"});"

\* C14: a SCROLL task compiles to the default options { down, once } exactly
\* when its parameters hold neither direction nor scrollType, and a task
\* holding one of the two keys has that value, and its target when it has
\* one, in the statement.
C14_ScrollDefaultOnlyWhenNeither ==
    CompiledScroll =>
        /\ (code = DefaultScrollStatement)
              <=> (~HasKey(task, "direction") /\ ~HasKey(task, "scrollType"))
        /\ (HasKey(task, "direction") /\ ~HasKey(task, "scrollType"))
              => /\ Contains(code, task.parameters["direction"])
                 /\ (task.target # None /\ task.target # "") => Contains(code, task.target)
        /\ (HasKey(task, "scrollType") /\ ~HasKey(task, "direction"))
              => /\ Contains(code, task.parameters["scrollType"])
                 /\ (task.target # None /\ task.target # "") => Contains(code, task.target)

\* the name an EXTRACT statement binds
BindsName(name) == StartsWith(code, "  const " \o name \o " = await aiQuery<")
ContainsAny(text, keys) == \E k \in keys : Contains(text, k)

\* C15 as stated: the scan is case-insensitive and knows the English
\* keywords, so that a description holding "用户信息" or "user info" (in any
\* case) binds userInfo.
C15_UserInfoAnyLanguage ==
    (Compiled("extract")
        /\ ContainsAny(task.description, {"yonghuxinxi", "user info", "User Info"})
        /\ ~ContainsAny(task.description, {"shangpin", "chanpin", "product", "goods"}))
        => BindsName("userInfo")

\* C15 as amended: the scan is an exact substring scan for the Chinese
\* keywords only, first match wins: "商品"/"产品" bind items, else
\* "用户"/"账户" bind userInfo, else "数据" binds data, else extractedData
\* (so "用户信息" binds userInfo and "user info" binds extractedData).
C15_ChineseKeywordPriority ==
    Compiled("extract") =>
        LET d == task.description
        IN  IF ContainsAny(d, {"shangpin", "chanpin"}) THEN BindsName("items")
            ELSE IF ContainsAny(d, {"yonghu", "zhanghu"}) THEN BindsName("userInfo")
            ELSE IF Contains(d, "shuju") THEN BindsName("data")
            ELSE BindsName("extractedData")

\* "提取数据: 用户" holds both a user keyword and the data keyword: userInfo.
C15_Witness ==
    /\ Compiled("extract")
    /\ task.description = "tiqushuju: yonghu"
    /\ BindsName("userInfo")

\* C16: an ASSERT task compiles to an assertion call on its assertion text,
\* with an options object holding timeoutMs exactly when its parameters
\* hold timeoutMs, the value emitted being the one of the task.
C16_AssertTimeoutOnlyWhenGiven ==
    Compiled("assert") =>
        /\ StartsWith(code, "  await aiAssert('" \o task.target \o "'")
        /\ Contains(code, "timeoutMs") <=> HasKey(task, "timeoutMs")
        /\ HasKey(task, "timeoutMs")
              => EndsWith(code, ", { timeoutMs: "
                                  \o IntToStr(task.parameters["timeoutMs"]) \o " });")
        /\ ~HasKey(task, "timeoutMs") => EndsWith(code, "'" \o task.target \o "');")

\* Both cases at hand: the witness is the task with timeoutMs 5000.
C16_Witness ==
    /\ Compiled("assert")
    /\ task.parameters = [timeoutMs |-> 5000]
    /\ code = "  await aiAssert('t', { timeoutMs: 5000 });"

\* C17: a WAIT task compiles to a wait-for call on its condition that always
\* holds a timeoutMs option: the task's timeoutMs when its parameters hold
\* one, 10000 otherwise.
C17_WaitAlwaysHasTimeout ==
    Compiled("wait") =>
        code = "  await aiWaitFor('" \o task.target \o "', { timeoutMs: "
                   \o (IF HasKey(task, "timeoutMs")
                          THEN IntToStr(task.parameters["timeoutMs"]) ELSE "10000")
                   \o " });"

\* A WAIT task without timeoutMs (other parameters only): 10000 is emitted.
C17_Witness ==
    /\ Compiled("wait")
    /\ task.parameters = [extra |-> "ignored"]
    /\ code = "  await aiWaitFor('t', { timeoutMs: 10000 });"

\* ------------------------------------------- properties of the validator
Empty(x) == x = "" \/ x = None

\* C18: validate_task_sequence returns false exactly when some task of the
\* sequence has an empty description or some ACTION task has an empty or
\* absent target (so the empty sequence is valid, and a sequence of one
\* ACTION task is invalid with an empty target and valid with a target).
C18_InvalidIffEmptyDescriptionOrTarget ==
    validation.done =>
        (validation.result = FALSE
            <=> \E i \in 1 .. Len(validation.tasks) :
                   \/ Empty(validation.tasks[i].description)
                   \/ (validation.tasks[i].type = "action"
                          /\ Empty(validation.tasks[i].target)))

\* The scenario of the specification: one ACTION task with an empty target.
C18_Witness ==
    /\ validation.done
    /\ Len(validation.tasks) = 1
    /\ validation.tasks[1].type = "action"
    /\ validation.tasks[1].description = "d1"
    /\ validation.tasks[1].target = ""
    /\ validation.result = FALSE

\* ------------------------------------------ properties of the case generator
\* the results of the last call that compiled and saved a script
Successes == {k \in 1 .. Len(report.results) : report.results[k].success}

\* the navigation statement and the network-idle wait for a target
NavigationStatement(target) ==
    "  await page.goto(\"" \o target \o "\");\n"
        \o "  await page.waitForLoadState(\"networkidle\");"

\* the end of a script whose test block holds, for the tasks in order, the
\* description comment followed by the statement stmt[i], with one blank
\* line between consecutive tasks
TestBlockEnd(config, tasks, stmt) ==
    "\n  // " \o config.description
        \o Join([i \in 1 .. Len(tasks) |->
                    (IF i = 1 THEN "\n" ELSE "\n\n")
                        \o "  // " \o tasks[i].description \o "\n" \o stmt[i]], "")
        \o "\n});"

\* what a task may compile to: its template, or the navigation statements
StatementsOf(t) ==
    {NavigationStatement(Str(t.target))}
        \cup (IF t.type = "action" /\ t.action_type = None THEN {} ELSE {TaskToCode(t).text})

\* C11: the test block of a compiled script holds, for each task of the
\* sequence in list order, the task's description comment immediately
\* followed by its compiled statement(s), with exactly one blank line between
\* consecutive tasks and nothing else: no task is skipped, doubled or moved.
C11_TestBlockInOrder ==
    \A k \in Successes :
        LET tasks == report.sequences[k].tasks
        IN  /\ report.results[k].task_count = Len(tasks)
            /\ \E stmt \in [1 .. Len(tasks) -> UNION {StatementsOf(tasks[i]) :
                                                        i \in 1 .. Len(tasks)}] :
                  /\ \A i \in 1 .. Len(tasks) : stmt[i] \in StatementsOf(tasks[i])
                  /\ EndsWith(report.results[k].script,
                              TestBlockEnd(report.results[k].config, tasks, stmt))

\* The scenario of the specification: navigate, input, click.
C11_Witness ==
    /\ report.op = "generate_single_case_from_natural_language"
    /\ Successes = {1}
    /\ EndsWith(report.results[1].script,
                "}) => {\n  // search the site\n"
                    \o "  // open example.com\n"
                    \o "  await page.goto(\"example.com\");\n"
                    \o "  await page.waitForLoadState(\"networkidle\");\n"
                    \o "\n"
                    \o "  // type hello into the search box\n"
                    \o "  await aiInput('hello','search box');\n"
                    \o "\n"
                    \o "  // click the search button\n"
                    \o "  await aiTap('search button');\n"
                    \o "});")

\* C12: in a compiled script a task is emitted as the navigation statement to
\* its target followed by the network-idle wait exactly when it is an ACTION
\* task with action type NAVIGATE; every other task is emitted as its
\* task-type template gives it, whatever action_type it carries.
C12_NavigateOnlyForActionTasks ==
    \A k \in Successes :
        LET tasks == report.sequences[k].tasks
        IN  EndsWith(report.results[k].script,
                     TestBlockEnd(report.results[k].config, tasks,
                                  [i \in 1 .. Len(tasks) |->
                                      IF tasks[i].type = "action"
                                            /\ tasks[i].action_type = "navigate"
                                          THEN NavigationStatement(Str(tasks[i].target))
                                          ELSE TaskToCode(tasks[i]).text]))

\* the case fails by one of: a Gateway or JSON failure, a reply holding a
\* non-record, a method outside the catalog, a case type that is not known,
\* a script file that cannot be written
FailsByInput(case, env) ==
    \/ case.type \notin {"natural_language", "steps"}
    \/ case.type = "natural_language" /\ env.reply.kind # "array"
    \/ case.type = "natural_language"
          /\ \E i \in 1 .. Len(env.reply.items) : ~env.reply.items[i].dict
    \/ case.type = "steps"
          /\ \E i \in 1 .. Len(case.data) :
                case.data[i].method \notin
                    {"aiInput", "aiTap", "aiScroll", "aiAssert", "aiQuery", "aiWaitFor",
                     "aiHover", "aiKeyboardPress", "pageGoto"}
    \/ ~env.save_ok

\* the key under which a record holds the input of its case
InputKey(case) == IF case.type = "steps" THEN "steps" ELSE "natural_language"

\* the record is a failure record of the case: success false, a message,
\* the config, and the input when the case type is known
FailureRecord(r, case) ==
    /\ r.success = FALSE
    /\ "error" \in DOMAIN r
    /\ r.error # ""
    /\ r.config = case.config
    /\ case.type \in {"natural_language", "steps"}
          => (InputKey(case) \in DOMAIN r /\ r[InputKey(case)] = case.data)

\* the record is a success record of the case, whose script was written
SuccessRecord(r, case) ==
    /\ r.success = TRUE
    /\ r.config = case.config
    /\ r[InputKey(case)] = case.data
    /\ Len(r.script) > 0
    /\ \E i \in 1 .. Len(files) : files[i] = r.filename

\* C19: generate_multiple_cases, given cases that each carry their config,
\* goes through every case of the list whichever of them fail: results holds
\* one record per case, in case order, a failing case gives a success=false
\* record, and the cases after it are still processed.
C19_BatchProcessesEveryCase ==
    (report.op = "generate_multiple_cases"
        /\ \A i \in 1 .. Len(report.cases) : report.cases[i].config # NoConfig)
        => /\ Len(report.results) = Len(report.cases)
           /\ \A i \in 1 .. Len(report.cases) :
                 /\ \/ FailureRecord(report.results[i], report.cases[i])
                    \/ SuccessRecord(report.results[i], report.cases[i])
                 /\ FailsByInput(report.cases[i], report.envs[i])
                       => ~report.results[i].success
           /\ ~report.raised => report.value.results = report.results

\* A batch whose first case fails on an unknown case type and whose second
\* case is compiled and saved.
C19_Witness ==
    /\ report.op = "generate_multiple_cases"
    /\ ~report.raised
    /\ Len(report.cases) = 2
    /\ report.cases[1].type = "csv"
    /\ ~report.results[1].success
    /\ report.cases[2].type = "steps"
    /\ report.results[2].success
    /\ Len(files) = 2

\* C20: the single-case entry points, given a config, never raise: a failure
\* of the decomposition, the mapping, the compilation or the save gives a
\* record with success = false, the message, the input and the config, and a
\* record has success = true only if the script was compiled and saved.
C20_SingleCaseNeverRaises ==
    (report.op \in {"generate_single_case_from_natural_language",
                    "generate_single_case_from_steps"}
        /\ report.cases[1].config # NoConfig)
        => /\ ~report.raised
           /\ Len(report.results) = 1
           /\ \/ FailureRecord(report.value, report.cases[1])
              \/ /\ SuccessRecord(report.value, report.cases[1])
                 /\ ~FailsByInput(report.cases[1], report.envs[1])
                 /\ \A i \in 1 .. Len(report.sequences[1].tasks) :
                       ~TaskToCode(report.sequences[1].tasks[i]).raised
                          \/ report.sequences[1].tasks[i].action_type = "navigate"

\* A step outside the catalog: the ValueError comes back as a record.
C20_Witness ==
    /\ report.op = "generate_single_case_from_steps"
    /\ ~report.raised
    /\ report.value.success = FALSE
    /\ StartsWith(report.value.error, "buzhichidefangfa: aiFoo")
    /\ report.value.steps = report.cases[1].data
    /\ files = <<>>

\* the methods of the catalog, and the list of them as the error writes it
CatalogMethods ==
    {"aiInput", "aiTap", "aiScroll", "aiAssert", "aiQuery", "aiWaitFor", "aiHover",
     "aiKeyboardPress", "pageGoto"}
CatalogText ==
    "aiInput, aiTap, aiScroll, aiAssert, aiQuery, aiWaitFor, aiHover, aiKeyboardPress, pageGoto"

\* the positions of the steps whose method is outside the catalog
OutsideCatalog(steps) == {i \in 1 .. Len(steps) : steps[i].method \notin CatalogMethods}

\* C21: a calls list that holds a method outside the catalog fails at the
\* first such call with the unsupported-method error, which names the method
\* and lists the nine methods of the catalog; identifiers were assigned to
\* the calls before it only, no Task is built for it or after it, and no
\* TaskSequence is returned (the sequence counter stays as it was).
C21_UnsupportedMethodFails ==
    (report.op = "generate_single_case_from_steps"
        /\ ~report.raised
        /\ OutsideCatalog(report.cases[1].data) # {})
        => \E k \in OutsideCatalog(report.cases[1].data) :
              /\ \A i \in OutsideCatalog(report.cases[1].data) : k <= i
              /\ report.value.success = FALSE
              /\ report.value.error =
                    "buzhichidefangfa: " \o report.cases[1].data[k].method
                        \o ". zhichidefangfa: " \o CatalogText
              /\ sm_task_counter = k - 1
              /\ Len(sm_assigned) = k - 1
              /\ sequence_counter = 0
              /\ report.sequences[1] = NoSequence

\* The first call is outside the catalog: nothing is assigned, and the
\* catalog call after it is not mapped.
C21_Witness ==
    /\ report.op = "generate_single_case_from_steps"
    /\ ~report.raised
    /\ report.cases[1].data[1].method = "aiBar"
    /\ report.cases[1].data[2].method = "aiTap"
    /\ report.value.success = FALSE
    /\ sm_assigned = <<>>
    /\ sequence_counter = 0

\* the positions at which pattern occurs in text
Occurrences(text, pattern) ==
    {p \in 1 .. Len(text) - Len(pattern) + 1 :
        SubSeq(text, p, p + Len(pattern) - 1) = pattern}

\* reading a double-quoted string whose first character is at start: the
\* text up to the next double quote
QuotedAt(text, start) ==
    The({SubSeq(text, start, q - 1) :
           q \in {q \in start .. Len(text) :
                    /\ SubSeq(text, q, q) = "\""
                    /\ \A r \in start .. q - 1 : SubSeq(text, r, r) # "\""}})

\* text that needs no escaping inside double quotes
Plain(text) ==
    /\ text # None
    /\ \A i \in 1 .. Len(text) : SubSeq(text, i, i) \notin {"\"", "\\"}

\* the statement that follows the description comment of task t in script
\* is a navigation statement, and reading its destination back gives dest
NavigatesTo(script, t, dest) ==
    \E head \in {"  // " \o t.description \o "\n  await page.goto(\""} :
        /\ Occurrences(script, head) # {}
        /\ \A p \in Occurrences(script, head) :
              /\ QuotedAt(script, p + Len(head)) = dest
              /\ SubSeq(script, p + Len(head) + Len(dest), p + Len(head) + Len(dest) + 2)
                    = "\");"

\* C23: for every ACTION task with action type NAVIGATE whose target is
\* plain text, reading back the destination between the quotes of the
\* navigation statement emitted for it gives exactly the task's target.
C23_NavigateTargetRoundTrip ==
    \A k \in Successes :
        \A i \in 1 .. Len(report.sequences[k].tasks) :
            (report.sequences[k].tasks[i].type = "action"
                /\ report.sequences[k].tasks[i].action_type = "navigate"
                /\ Plain(report.sequences[k].tasks[i].target))
                => NavigatesTo(report.results[k].script, report.sequences[k].tasks[i],
                               report.sequences[k].tasks[i].target)

\* A pageGoto step to a URL with ASCII punctuation, read back unchanged.
C23_Witness ==
    /\ report.op = "generate_single_case_from_steps"
    /\ Successes = {1}
    /\ report.sequences[1].tasks[1].action_type = "navigate"
    /\ report.sequences[1].tasks[1].target = "https://example.com/a"
    /\ NavigatesTo(report.results[1].script, report.sequences[1].tasks[1],
                   "https://example.com/a")

\* the names of the test blocks of a script, in the order of the text
TestBlockNames(script) ==
    LET starts == Occurrences(script, "\ntest(\"")
    IN  [k \in 1 .. Cardinality(starts) |->
            QuotedAt(script,
                     7 + CHOOSE p \in starts : Cardinality({q \in starts : q < p}) = k - 1)]

\* the config names of the successful records, in case order
RECURSIVE SuccessfulNames(_)
SuccessfulNames(records) ==
    IF records = <<>> THEN <<>>
    ELSE (IF Head(records).success THEN <<Head(records).config.name>> ELSE <<>>)
             \o SuccessfulNames(Tail(records))

\* C28: when generate_multiple_cases returns, successful_count + failed_count
\* = total_cases = the number of result records, and the summary script, the
\* one file written after the scripts of the cases, holds one test block per
\* successful record, in case order, and none for a failed one.
C28_SummaryCountsAndBlocks ==
    (report.op = "generate_multiple_cases" /\ ~report.raised)
        => /\ report.value.successful_count + report.value.failed_count
                 = report.value.total_cases
           /\ report.value.total_cases = Len(report.value.results)
           /\ report.value.total_cases = Len(report.cases)
           /\ report.value.successful_count = Cardinality(Successes)
           /\ TestBlockNames(report.value.summary_script)
                 = SuccessfulNames(report.value.results)
           /\ Len(files) = Cardinality(Successes) + 1
           /\ files[Len(files)] = report.value.summary_filename
           /\ \A i \in 1 .. Len(files) - 1 : files[i] # report.value.summary_filename

\* A batch of two cases that both fail: the summary is still written, and
\* it holds no test block.
C28_Witness ==
    /\ report.op = "generate_multiple_cases"
    /\ ~report.raised
    /\ report.value.total_cases = 2
    /\ report.value.successful_count = 0
    /\ report.value.failed_count = 2
    /\ files = <<report.value.summary_filename>>
    /\ Occurrences(report.value.summary_script, "test(") = {}

\* ------------------------------------------------ properties of a session
\* the sequence number an identifier "task_NNNN" carries
TaskIdNumber(id) == StrToInt(SubSeq(id, 6, Len(id)))

\* "task_" followed by n in four decimal digits, written out digit by digit
FourDigitTaskId(n) ==
    "task_" \o Digit((n \div 1000) % 10) \o Digit((n \div 100) % 10)
            \o Digit((n \div 10) % 10) \o Digit(n % 10)

Returned == outcome.op # "none" /\ ~outcome.raised
\* the argument of a call that becomes the target of its task
CallTarget(c) == IF c.method = "aiKeyboardPress" THEN c.s2 ELSE c.s1
ReturnedTasks == outcome.sequence.tasks

\* C8: in a returned TaskSequence the identifiers are pairwise distinct and
\* strictly increasing in list order, and the list holds one task per raw
\* record or call, in the order of the input.
C8_SequenceIdsIncreasing ==
    Returned =>
        /\ \A i, j \in 1 .. Len(ReturnedTasks) :
              i < j => /\ ReturnedTasks[i].id # ReturnedTasks[j].id
                       /\ TaskIdNumber(ReturnedTasks[i].id) < TaskIdNumber(ReturnedTasks[j].id)
        /\ outcome.op = "parse_instruction"
              => /\ Len(ReturnedTasks) = Len(outcome.items)
                 /\ \A i \in 1 .. Len(ReturnedTasks) :
                       ReturnedTasks[i].description = outcome.items[i].description
        /\ outcome.op = "create_task_sequence_from_calls"
              => /\ Len(ReturnedTasks) = Len(outcome.call_list)
                 /\ \A i \in 1 .. Len(ReturnedTasks) :
                       ReturnedTasks[i].target = CallTarget(outcome.call_list[i])

\* The second sequence of a session, holding two tasks.
C8_Witness ==
    /\ Returned
    /\ outcome.op = "parse_instruction"
    /\ Len(ReturnedTasks) = 2
    /\ ReturnedTasks[1].id = "task_0002"
    /\ ReturnedTasks[2].id = "task_0003"
    /\ outcome.sequence.id = "sequence_0002"

\* C9: on each builder the n-th identifier generated is "task_" followed by
\* n in four digits, no identifier is generated twice, and the counter is
\* the number of identifiers generated so far, over all the calls of the
\* session, those that raised included.
C9_NthIdentifier ==
    /\ \A n \in 1 .. Len(tg_assigned) : tg_assigned[n] = FourDigitTaskId(n)
    /\ \A n \in 1 .. Len(sm_assigned) : sm_assigned[n] = FourDigitTaskId(n)
    /\ \A i, j \in 1 .. Len(tg_assigned) : i # j => tg_assigned[i] # tg_assigned[j]
    /\ \A i, j \in 1 .. Len(sm_assigned) : i # j => sm_assigned[i] # sm_assigned[j]
    /\ tg_task_counter = Len(tg_assigned)
    /\ sm_task_counter = Len(sm_assigned)

\* A build that raised on its second record, after an earlier sequence was
\* returned: the identifier of the failed build is spent.
C9_Witness ==
    /\ outcome.op = "parse_instruction"
    /\ outcome.raised
    /\ Len(outcome.items) = 2
    /\ sequence_counter = 1
    /\ tg_assigned = <<"task_0001", "task_0002", "task_0003">>
    /\ sm_assigned = <<>>

C25_SequenceContextIsACopy ==
    (Returned /\ sequence_context # "none")
        => ContextOfSequence
              = (IF sequence_context = "caller" THEN context_at_call ELSE DefaultContext)

\* C22: parse_compound_instruction hands the IR Builder nothing but an array
\* of record-like objects: whenever the reply decodes to anything else the
\* call fails in the parser, so the builder never receives a non-record.
C22_BuilderReceivesOnlyRecords ==
    outcome.op = "parse_instruction"
        => \A i \in 1 .. Len(outcome.items) : outcome.items[i].dict

\* C26: task identifiers are unique over the session: two sequences that one
\* MidsceneInsight returned one after the other, by either path, have no
\* task identifier in common.
C26_TaskIdsSessionUnique ==
    [][(Returned /\ Returned')
          => \A i \in 1 .. Len(outcome.sequence.tasks),
                j \in 1 .. Len(outcome'.sequence.tasks) :
                outcome.sequence.tasks[i].id # outcome'.sequence.tasks[j].id]_vars

\* the required arguments of a catalog call are given and not empty
RequiredArguments(c) ==
    CASE c.method \in {"aiInput"} -> Given(c.s1) /\ Given(c.s2)
      [] c.method \in {"aiTap", "aiAssert", "aiQuery", "aiWaitFor", "aiHover",
                       "aiKeyboardPress", "pageGoto"} -> Given(c.s1)
      [] OTHER -> TRUE

\* C29: a TaskSequence that create_task_sequence_from_calls built from
\* catalog calls whose required arguments are not empty passes
\* validate_task_sequence.
C29_MappedSequencesAreValid ==
    (validation.done
        /\ Returned
        /\ outcome.op = "create_task_sequence_from_calls"
        /\ validation.tasks = outcome.sequence.tasks
        /\ \A i \in 1 .. Len(outcome.call_list) : RequiredArguments(outcome.call_list[i]))
        => validation.result = TRUE

\* "sequence_" followed by n in four decimal digits
FourDigitSequenceId(n) ==
    "sequence_" \o Digit((n \div 1000) % 10) \o Digit((n \div 100) % 10)
                \o Digit((n \div 10) % 10) \o Digit(n % 10)

\* C30: a call of the session that fails leaves the sequence counter as it
\* was, and a call that returns advances it by one and returns the sequence
\* that carries the new count, so the returned sequences are numbered
\* sequence_0001, sequence_0002, ... without gaps over both paths; only the
\* task counters may advance during a failed call.
C30_FailedCallKeepsSequenceCounter ==
    [][/\ outcome'.raised => sequence_counter' = sequence_counter
       /\ ~outcome'.raised
             => /\ sequence_counter' = sequence_counter + 1
                /\ outcome'.sequence.id = FourDigitSequenceId(sequence_counter + 1)]_vars

\* A calls list that failed on its second call after a sequence was
\* returned: the mapper spent an identifier, the sequence counter is still 1.
C30_Witness ==
    /\ outcome.op = "create_task_sequence_from_calls"
    /\ outcome.raised
    /\ Len(outcome.call_list) = 2
    /\ sequence_counter = 1
    /\ sm_assigned = <<"task_0001">>
    /\ tg_assigned = <<"task_0001">>

====
